---- MODULE Spec2Model ----
(***************************************************************************)
(* Model of the injury-report acquisition pipeline of poly-nba-markets:    *)
(* the single-flight TTL cache (getCachedInjuryReport,                     *)
(* getInjuryReportWithCache), the existence-checked fetcher                *)
(* (fetchLatestInjuryReport, urlExists, fetchPdf) and the candidate        *)
(* generator (buildCandidateUrls, formatEtFilenameParts).                  *)
(*                                                                         *)
(* Time is counted in minutes (60_000 ms): Date.now(), fetchedAtMs and     *)
(* maxAgeMs are all in that unit.  Minute 0 is 2026-11-01 00:00 in         *)
(* America/New_York (EDT); daylight saving time ends at minute 120.        *)
(* Execution is the JavaScript event loop: a network completion (a         *)
(* macrotask) runs only when the microtask queue is empty, and the         *)
(* continuations of a settled promise are queued in the order in which     *)
(* they were registered and run first-in first-out.                        *)
(* A JavaScript null is the empty sequence <<>> and a present value v is   *)
(* the one-element sequence <<v>>.                                         *)
(* The text pdf() extracts is one opaque value; lookbackSteps and          *)
(* stepMinutes are always passed (the defaults of the ?? operators are     *)
(* not drawn).  New calls may arrive at any point, also between two        *)
(* queued continuations.                                                   *)
(*                                                                         *)
(* The pure functions of the library (buildCandidateUrls, buildTeamName,   *)
(* normalizeForParsing) are also run on their own, on arguments held in    *)
(* libArgs with the result in libOut, and summarizeInjuriesFromPdfText is  *)
(* run one token of its loop per step.  There texts and tokens are         *)
(* strings, a character is a string of length 1, and each regular          *)
(* expression is matched character by character.                           *)
(*                                                                         *)
(* The stats client of the matchup route (nbaJson over fetchCache) is      *)
(* modelled with its own clock, in units of the 350 ms backoff step; one   *)
(* call is in progress at a time and each attempt's response is drawn      *)
(* from FetchOutcomes.                                                     *)
(***************************************************************************)
EXTENDS Integers, Sequences, FiniteSets, TLC

(* ---------------------------- bounds ----------------------------------- *)
NumCallers == 2
MaxTicks == 1
MaxRefresh == 2
MaxLookback == 1
MaxAgeMax == 1
GenNowMax == 130
GenLookbackMax == 3
MaxFragments == 4
MaxScanTokens == 5
MaxAtoms == 4
MaxRetries == 2
MaxNbaCalls == 2
MaxNbaClock == 3

(* ------------------------ program constants ---------------------------- *)
ClockStart == 125
DstEndMinute == 120
MinutesPerDay == 1440

Callers == 1..NumCallers
RefreshIds == 1..MaxRefresh
MaxAges == 0..MaxAgeMax
LookbackChoices == (0 - 1)..MaxLookback
StepChoices == {15, 60}

VARIABLES now, cache, inFlight, pipes, callers, started, last, microtasks,
          libArgs, libOut,
          pdfText, tokens, tokenIndex, currentTeamName, pendingPlayer,
          byTeamName, summarizePc,
          nbaClock, fetchCache, nbaCall, nbaStarted

\* The state of the acquisition pipeline, and the state of the library
\* functions exercised on their own (the arguments and the result of one
\* call).
pipelineVars == <<now, cache, inFlight, pipes, callers, started, last, microtasks>>

\* The state of one run of summarizeInjuriesFromPdfText: its argument, the
\* tokens, the index of the loop (from 1), the two nullable locals, the
\* result under construction and where the run stands.
parseVars == <<pdfText, tokens, tokenIndex, currentTeamName, pendingPlayer,
               byTeamName, summarizePc>>

libVars == <<libArgs, libOut, parseVars>>

\* The state of the NBA stats client: the clock Date.now() reads, in units
\* of 350 ms, the module-level fetchCache, the frame of the nbaJson call
\* under way or ended last, and the number of calls made.
nbaVars == <<nbaClock, fetchCache, nbaCall, nbaStarted>>

vars == <<pipelineVars, libVars, nbaVars>>

(* ---------------------- candidate generator ---------------------------- *)

\* Local wall-clock minute in America/New_York of the instant d.
EtLocalMinute(d) == IF d < DstEndMinute THEN d ELSE d - 60

formatEtFilenameParts(d) ==
  LET local == EtLocalMinute(d)
      minuteOfDay == local % MinutesPerDay
      h24 == minuteOfDay \div 60
  IN  [dateStr |-> local \div MinutesPerDay,
       hh12 |-> IF h24 % 12 = 0 THEN 12 ELSE h24 % 12,
       mm |-> minuteOfDay % 60,
       ampm |-> IF h24 < 12 THEN "AM" ELSE "PM"]

\* One candidate of the instant t: the URL and the label are two templates
\* over the same four filename parts.
CandidateAt(t) ==
  LET p == formatEtFilenameParts(t)
  IN  [url |-> <<"Injury-Report", p.dateStr, p.hh12, p.mm, p.ampm>>,
       label |-> <<p.dateStr, p.hh12, p.mm, p.ampm, "ET">>]

\* Variant: nothing is filtered out.
RECURSIVE DedupByUrl_keepAll(_, _, _)
DedupByUrl_keepAll(out, i, seen) ==
  IF i > Len(out) THEN <<>>
  ELSE <<out[i]>> \o DedupByUrl_keepAll(out, i + 1, seen)

RECURSIVE DedupByUrl(_, _, _)
DedupByUrl(out, i, seen) ==
  IF i > Len(out) THEN <<>>
  ELSE IF out[i].url \in seen THEN DedupByUrl(out, i + 1, seen)
  ELSE <<out[i]>> \o DedupByUrl(out, i + 1, seen \cup {out[i].url})

buildCandidateUrls(nowDate, lookbackSteps, stepMinutes) ==
  LET out == [i \in 1..(lookbackSteps + 1) |->
                CandidateAt(nowDate - (i - 1) * stepMinutes)]
  IN  DedupByUrl(out, 1, {})

\* The arguments and the result of a call of a library function made on
\* its own: none while the pipeline is what runs.
NoArgs == <<>>
NotCalled == [called |-> FALSE, value |-> <<>>]
Called(v) == [called |-> TRUE, value |-> v]

(* ------------------------------ cache ---------------------------------- *)

NoValue == <<>>
NoRefresh == 0

\* Variants of the freshness test: a strict comparison, and no age test.
getCachedInjuryReport_strict(maxAgeMs) ==
  IF cache = NoValue THEN NoValue
  ELSE IF now - cache[1].fetchedAtMs < maxAgeMs THEN cache
  ELSE NoValue

getCachedInjuryReport_noTtl(maxAgeMs) == cache

getCachedInjuryReport(maxAgeMs) ==
  IF cache = NoValue THEN NoValue
  ELSE IF now - cache[1].fetchedAtMs <= maxAgeMs THEN cache
  ELSE NoValue


(* --------------------------- call records ------------------------------ *)

NoReturn == [kind |-> "none", value |-> <<>>, stale |-> FALSE, error |-> <<>>]
ReturnValue(v, stale) == [kind |-> "value", value |-> v, stale |-> stale, error |-> <<>>]
ReturnNull == [kind |-> "null", value |-> <<>>, stale |-> FALSE, error |-> <<>>]
Throw(e) == [kind |-> "throw", value |-> <<>>, stale |-> FALSE, error |-> e]

\* A slot value is fresh at time t for maxAge: present and not older.
FreshAt(slot, t, maxAge) == slot # <<>> /\ t - slot[1].fetchedAtMs <= maxAge

\* The frame of a call of getInjuryReportWithCache: where it stands, and
\* what it met when it was issued (whether the slot was fresh for its
\* maxAgeMs, the slot, the marker), the refresh it started and the one it
\* awaits.  maxAgeMs itself is dead after the freshness test.
IdleCaller ==
  [pc |-> "idle", sawFresh |-> FALSE, slotAtCall |-> <<>>, markerAtCall |-> 0,
   startedRefresh |-> 0, awaited |-> 0]

\* last: the call that returned or threw in the latest step -- NoCall when
\* the latest step was no return.  It is what the caller receives.  args is
\* <<maxAgeMs, time of the call>> for a call that returns in the step in
\* which it is issued.
NoCall == [op |-> "none", args |-> <<>>, frame |-> IdleCaller, ret |-> NoReturn]

Returned(op, args, frame, ret) ==
  [op |-> op, args |-> args, frame |-> frame, ret |-> ret]

(* ----------------------------- fetcher --------------------------------- *)

\* What a request can meet: an OK response, a non-OK response, or a failure
\* of the transport; what pdf() can give: the text (one opaque value) or an
\* exception.

HeadOutcomes == {"ok", "notok", "fail"}
GetOutcomes == {"ok", "notok", "fail"}
PdfOutcomes == {"ok", "notok", "fail"}
ParseOutcomes == {"text", "throw"}

\* Variant: the GET request is sent after every HEAD request that does not
\* answer OK, also one that executed and answered non-OK.
urlExists_fallbackUnlessOk(head, get) ==
  IF head = "ok"
  THEN [exists |-> "true", fallback |-> "-"]
  ELSE [exists |-> IF get = "fail" THEN "throw"
                   ELSE IF get = "ok" THEN "true" ELSE "false",
        fallback |-> get]

\* urlExists, given what the HEAD request and (if it is sent) the GET request
\* meet: exists is "true", "false", or "throw" when the fallback GET cannot
\* run; fallback is what the GET request met, "-" when it was not sent.
urlExists(head, get) ==
  IF head # "fail"
  THEN [exists |-> IF head = "ok" THEN "true" ELSE "false", fallback |-> "-"]
  ELSE [exists |-> IF get = "fail" THEN "throw"
                   ELSE IF get = "ok" THEN "true" ELSE "false",
        fallback |-> get]

\* fetchPdf: a buffer on an OK response, an exception otherwise.
fetchPdf(res) == IF res = "ok" THEN "buffer" ELSE "throw"

\* One refresh: the promise held by inFlight and the run of
\* fetchLatestInjuryReport behind it.  tried has one entry per candidate the
\* loop has entered: what its probe, its retrieval and its parse gave
\* ("-" for a step that was not performed).
UnusedPipe ==
  [status |-> "unused", candidates |-> <<>>, i |-> 0, stage |-> "none",
   lastErr |-> <<>>, tried |-> <<>>, result |-> <<>>, error |-> <<>>,
   awaiters |-> <<>>]

CollectedPipe == [UnusedPipe EXCEPT !.status = "collected"]

\* The throw after the loop: the count of candidates and the last error.
Exhausted(p) ==
  [p EXCEPT !.status = "failed", !.stage = "none",
            !.error = <<[checked |-> Len(p.candidates), lastErr |-> p.lastErr]>>]

\* `continue`: the next candidate of the for-of loop, or the loop's exit.
Continue(p) ==
  IF p.i < Len(p.candidates)
  THEN [p EXCEPT !.i = p.i + 1, !.stage = "probe"]
  ELSE Exhausted(p)

\* Variants of the catch clause: the error ends the search, and only the
\* first error is kept.
CatchAndContinue_abort(p, e) == Exhausted([p EXCEPT !.lastErr = <<e>>])

CatchAndContinue_first(p, e) ==
  Continue([p EXCEPT !.lastErr = IF p.lastErr = <<>> THEN <<e>> ELSE p.lastErr])

\* catch (e) { lastErr = e; continue; }
CatchAndContinue(p, e) == Continue([p EXCEPT !.lastErr = <<e>>])

\* Variant: the artifact is labelled with the head of the candidate list.
ReturnArtifact_first(p, text) ==
  [p EXCEPT !.status = "fetched", !.stage = "none",
            !.result = <<[fetchedAtMs |-> now,
                          sourceUrl |-> p.candidates[1].url,
                          reportLabel |-> p.candidates[1].label,
                          pdfText |-> text]>>]

\* The return inside the loop: the artifact of the current candidate.
ReturnArtifact(p, text) ==
  [p EXCEPT !.status = "fetched", !.stage = "none",
            !.result = <<[fetchedAtMs |-> now,
                          sourceUrl |-> p.candidates[p.i].url,
                          reportLabel |-> p.candidates[p.i].label,
                          pdfText |-> text]>>]

\* What to do with a candidate once urlExists has answered.
AfterProbe(p, exists) ==
  IF exists = "throw"
  THEN CatchAndContinue(p, [kind |-> "ProbeTransportError", cand |-> p.i])
  ELSE IF exists = "false" THEN Continue(p)
  ELSE [p EXCEPT !.stage = "fetch"]

\* What to do with a candidate once fetchPdf has answered.
AfterPdf(p, buf) ==
  IF buf = "throw"
  THEN CatchAndContinue(p, [kind |-> "RetrievalError", cand |-> p.i])
  ELSE [p EXCEPT !.stage = "parse"]

\* What to do with a candidate once pdf() has answered.
AfterParse(p, parsed) ==
  IF parsed = "throw"
  THEN CatchAndContinue(p, [kind |-> "ExtractionError", cand |-> p.i])
  ELSE ReturnArtifact(p, "report")

\* The loop enters candidate p.i with its probe.
Entering(p, head, probe) ==
  [p EXCEPT !.tried = Append(p.tried,
     [cand |-> p.i, head |-> head, get |-> probe.fallback,
      exists |-> probe.exists, pdf |-> "-", parse |-> "-"])]

\* The synchronous start of fetchLatestInjuryReport, up to its first await.
fetchLatestInjuryReport(lookbackSteps, stepMinutes) ==
  LET candidates == buildCandidateUrls(now, lookbackSteps, stepMinutes)
      p == [UnusedPipe EXCEPT !.status = "running", !.candidates = candidates,
                              !.i = 1, !.stage = "probe"]
  IN  IF candidates = <<>> THEN Exhausted(p) ELSE p

\* The microtask queue after a step of refresh r: when the run of
\* fetchLatestInjuryReport has just ended, the continuation of the async
\* closure that awaits it is queued.
Queued(q, p, r) ==
  IF p.status \in {"fetched", "failed"}
  THEN Append(q, [job |-> "settle", id |-> r])
  ELSE q

\* await urlExists(c.url)
Probe(r) ==
  /\ microtasks = <<>>
  /\ pipes[r].status = "running"
  /\ pipes[r].stage = "probe"
  /\ \E head \in HeadOutcomes, get \in GetOutcomes :
       LET probe == urlExists(head, get)
       IN  pipes' = [pipes EXCEPT ![r] =
             AfterProbe(Entering(pipes[r], head, probe), probe.exists)]
  /\ microtasks' = Queued(microtasks, pipes'[r], r)
  /\ last' = NoCall
  /\ UNCHANGED <<now, cache, inFlight, callers, started, libVars, nbaVars>>

\* await fetchPdf(c.url)
FetchPdfStep(r) ==
  /\ microtasks = <<>>
  /\ pipes[r].status = "running"
  /\ pipes[r].stage = "fetch"
  /\ \E res \in PdfOutcomes :
       LET buf == fetchPdf(res)
           p == [pipes[r] EXCEPT !.tried[Len(pipes[r].tried)].pdf = buf]
       IN  pipes' = [pipes EXCEPT ![r] = AfterPdf(p, buf)]
  /\ microtasks' = Queued(microtasks, pipes'[r], r)
  /\ last' = NoCall
  /\ UNCHANGED <<now, cache, inFlight, callers, started, libVars, nbaVars>>

\* await pdf(pdfBuf), then the return of the artifact
ParseStep(r) ==
  /\ microtasks = <<>>
  /\ pipes[r].status = "running"
  /\ pipes[r].stage = "parse"
  /\ \E parsed \in ParseOutcomes :
       LET p == [pipes[r] EXCEPT !.tried[Len(pipes[r].tried)].parse = parsed]
       IN  pipes' = [pipes EXCEPT ![r] = AfterParse(p, parsed)]
  /\ microtasks' = Queued(microtasks, pipes'[r], r)
  /\ last' = NoCall
  /\ UNCHANGED <<now, cache, inFlight, callers, started, libVars, nbaVars>>

(* ------------------------- single-flight cache ------------------------- *)

Entered(maxAgeMs) ==
  [IdleCaller EXCEPT !.pc = "running",
                     !.sawFresh = FreshAt(cache, now, maxAgeMs),
                     !.slotAtCall = cache, !.markerAtCall = inFlight]

\* Variant: the outstanding refresh is not looked at.
RefreshOutstanding_never == FALSE

\* if (inFlight)
RefreshOutstanding == inFlight # NoRefresh

\* Variants: the slot is taken to be always empty, or always filled.
HasCachedValue_never == FALSE

HasCachedValue_always == TRUE

\* if (cache) inside the in-flight branch
HasCachedValue == cache # NoValue

\* Variant: a value obtained by awaiting the refresh is marked stale.
Outcome_stale(p) ==
  IF p.status = "resolved" THEN ReturnValue(p.result, TRUE) ELSE Throw(p.error)

\* What the settled promise gives to a caller awaiting it.
Outcome(p) ==
  IF p.status = "resolved" THEN ReturnValue(p.result, FALSE) ELSE Throw(p.error)

Settled(r) == pipes[r].status \in {"resolved", "rejected"}

\* Variant: the slot is assigned on either outcome of the refresh.
CacheAfterRefresh_always(p) == p.result

\* The cache slot after the async closure of the refresh resumes.
CacheAfterRefresh(p) == IF p.status = "fetched" THEN p.result ELSE cache

\* Variant: the marker is cleared on the success path only.
MarkerAfterRefresh_onSuccess(p) ==
  IF p.status = "resolved" THEN NoRefresh ELSE inFlight

\* finally { inFlight = null; }
MarkerAfterRefresh(p) == NoRefresh

\* A settled promise nobody holds any more is dropped.
Release(ps, r, cs, marker) ==
  IF marker # r /\ \A d \in Callers : cs[d].awaited # r
  THEN [ps EXCEPT ![r] = CollectedPipe]
  ELSE ps

\* The continuations of the callers awaiting promise r, in the order in
\* which they were registered.
RECURSIVE Reactions(_)
Reactions(awaiters) ==
  IF awaiters = <<>> THEN <<>>
  ELSE <<[job |-> "resume", id |-> Head(awaiters)]>> \o Reactions(Tail(awaiters))

\* `await inFlight` by caller c: registered on a pending promise, queued at
\* once on a settled one.
AwaitRegistered(ps, r, c) ==
  IF ps[r].status \in {"resolved", "rejected"} THEN ps
  ELSE [ps EXCEPT ![r].awaiters = Append(ps[r].awaiters, c)]

AwaitQueued(q, ps, r, c) ==
  IF ps[r].status \in {"resolved", "rejected"}
  THEN Append(q, [job |-> "resume", id |-> c])
  ELSE q

Read(maxAgeMs) ==
  /\ LET fresh == getCachedInjuryReport(maxAgeMs)
     IN  last' = Returned("read", <<maxAgeMs, now>>, Entered(maxAgeMs),
                          IF fresh = NoValue THEN ReturnNull
                          ELSE ReturnValue(fresh, FALSE))
  /\ UNCHANGED <<now, cache, inFlight, pipes, callers, started, microtasks, libVars, nbaVars>>

getInjuryReportWithCache(c, maxAgeMs, lookbackSteps, stepMinutes) ==
  /\ callers[c].pc = "idle"
  /\ LET fresh == getCachedInjuryReport(maxAgeMs)
         me == Entered(maxAgeMs)
         args == <<maxAgeMs, now>>
     IN  IF fresh # NoValue
         THEN /\ last' = Returned("getOrRefresh", args, me, ReturnValue(fresh, FALSE))
              /\ UNCHANGED <<inFlight, pipes, started, callers, microtasks>>
         ELSE IF RefreshOutstanding
         THEN IF HasCachedValue
              THEN /\ last' = Returned("getOrRefresh", args, me, ReturnValue(cache, TRUE))
                   /\ UNCHANGED <<inFlight, pipes, started, callers, microtasks>>
              ELSE /\ callers' = [callers EXCEPT ![c] =
                        [me EXCEPT !.pc = "awaitInFlight", !.awaited = inFlight]]
                   /\ pipes' = AwaitRegistered(pipes, inFlight, c)
                   /\ microtasks' = AwaitQueued(microtasks, pipes, inFlight, c)
                   /\ last' = NoCall
                   /\ UNCHANGED <<inFlight, started>>
         ELSE /\ started < MaxRefresh
              /\ started' = started + 1
              /\ inFlight' = started + 1
              /\ LET r == started + 1
                     p == fetchLatestInjuryReport(lookbackSteps, stepMinutes)
                 IN  /\ pipes' = [pipes EXCEPT ![r] = [p EXCEPT !.awaiters = <<c>>]]
                     /\ microtasks' = Queued(microtasks, p, r)
              /\ callers' = [callers EXCEPT ![c] =
                   [me EXCEPT !.pc = "awaitOwn", !.awaited = started + 1,
                              !.startedRefresh = started + 1]]
              /\ last' = NoCall
  /\ UNCHANGED <<now, cache, libVars, nbaVars>>

\* Variant: the closure of the refresh returns the value without storing it.
SettleRefresh_noStore(r) ==
  /\ microtasks # <<>>
  /\ Head(microtasks) = [job |-> "settle", id |-> r]
  /\ pipes' = [pipes EXCEPT ![r].status =
       IF pipes[r].status = "fetched" THEN "resolved" ELSE "rejected"]
  /\ microtasks' = Tail(microtasks) \o Reactions(pipes[r].awaiters)
  /\ last' = NoCall
  /\ UNCHANGED <<now, cache, inFlight, callers, started, libVars, nbaVars>>

\* The async closure of the refresh resumes after fetchLatestInjuryReport:
\* cache = v; return v  -- or the rejection passes through.  The promise
\* held by inFlight settles and the continuations of its awaiters are queued.
SettleRefresh(r) ==
  /\ microtasks # <<>>
  /\ Head(microtasks) = [job |-> "settle", id |-> r]
  /\ cache' = CacheAfterRefresh(pipes[r])
  /\ pipes' = [pipes EXCEPT ![r].status =
       IF pipes[r].status = "fetched" THEN "resolved" ELSE "rejected"]
  /\ microtasks' = Tail(microtasks) \o Reactions(pipes[r].awaiters)
  /\ last' = NoCall
  /\ UNCHANGED <<now, inFlight, callers, started, libVars, nbaVars>>

\* The caller that started the refresh resumes from `await inFlight`.
InitiatorResume(c) ==
  /\ microtasks # <<>>
  /\ Head(microtasks) = [job |-> "resume", id |-> c]
  /\ callers[c].pc = "awaitOwn"
  /\ LET r == callers[c].awaited
         cs == [callers EXCEPT ![c] = IdleCaller]
         marker == MarkerAfterRefresh(pipes[r])
     IN  /\ callers' = cs
         /\ last' = Returned("getOrRefresh", <<>>, callers[c], Outcome(pipes[r]))
         /\ inFlight' = marker
         /\ pipes' = Release(pipes, r, cs, marker)
  /\ microtasks' = Tail(microtasks)
  /\ UNCHANGED <<now, cache, started, libVars, nbaVars>>

\* A caller that found the refresh outstanding and the slot empty resumes.
WaiterResume(c) ==
  /\ microtasks # <<>>
  /\ Head(microtasks) = [job |-> "resume", id |-> c]
  /\ callers[c].pc = "awaitInFlight"
  /\ LET r == callers[c].awaited
         cs == [callers EXCEPT ![c] = IdleCaller]
     IN  /\ callers' = cs
         /\ last' = Returned("getOrRefresh", <<>>, callers[c], Outcome(pipes[r]))
         /\ pipes' = Release(pipes, r, cs, inFlight)
  /\ microtasks' = Tail(microtasks)
  /\ UNCHANGED <<now, cache, inFlight, started, libVars, nbaVars>>

Tick ==
  /\ now < ClockStart + MaxTicks
  /\ now' = now + 1
  /\ last' = NoCall
  /\ UNCHANGED <<cache, inFlight, pipes, callers, started, microtasks, libVars, nbaVars>>

PipelineInit ==
  /\ now = ClockStart
  /\ cache = NoValue
  /\ inFlight = NoRefresh
  /\ pipes = [r \in RefreshIds |-> UnusedPipe]
  /\ callers = [c \in Callers |-> IdleCaller]
  /\ started = 0
  /\ last = NoCall
  /\ microtasks = <<>>

\* The frame of nbaJson before any call.
IdleNbaCall ==
  [pc |-> "idle", cacheKey |-> "", ttlMs |-> 0, retries |-> 0, now |-> 0,
   attempt |-> 0, fetches |-> 0, res |-> <<>>, lastErr |-> <<>>,
   result |-> [kind |-> "none", value |-> <<>>]]

NbaKeys == {"scoreboard", "h2h"}

\* No call of the NBA stats client, and an empty fetchCache.
NbaIdle ==
  /\ nbaClock = 0
  /\ fetchCache = [k \in NbaKeys |-> <<>>]
  /\ nbaCall = IdleNbaCall
  /\ nbaStarted = 0

\* No run of the parser.
ParseIdle ==
  /\ pdfText = ""
  /\ tokens = <<>>
  /\ tokenIndex = 0
  /\ currentTeamName = <<>>
  /\ pendingPlayer = <<>>
  /\ byTeamName = <<>>
  /\ summarizePc = "idle"

Init ==
  /\ PipelineInit
  /\ NbaIdle
  /\ libArgs = NoArgs
  /\ libOut = NotCalled
  /\ ParseIdle

PipelineNext ==
  \/ \E r \in RefreshIds : Probe(r)
  \/ \E r \in RefreshIds : FetchPdfStep(r)
  \/ \E r \in RefreshIds : ParseStep(r)
  \/ \E r \in RefreshIds : SettleRefresh(r)
  \/ \E c \in Callers : InitiatorResume(c)
  \/ \E c \in Callers : WaiterResume(c)

Next ==
  \/ Tick
  \/ \E maxAgeMs \in MaxAges : Read(maxAgeMs)
  \/ \E c \in Callers, maxAgeMs \in MaxAges,
        lookbackSteps \in LookbackChoices, stepMinutes \in StepChoices :
       getInjuryReportWithCache(c, maxAgeMs, lookbackSteps, stepMinutes)
  \/ PipelineNext

Spec == Init /\ [][Next]_vars

FairSpec == Spec /\ WF_vars(PipelineNext)

ActiveRefreshes ==
  {r \in RefreshIds : pipes[r].status \in {"running", "fetched", "failed"}}

TypeOK ==
  /\ now \in ClockStart..(ClockStart + MaxTicks)
  /\ inFlight \in {NoRefresh} \cup RefreshIds
  /\ started \in 0..MaxRefresh
  /\ Len(cache) <= 1


(* ======================== properties of the cache ====================== *)

Pending == {c \in Callers : callers[c].pc \in {"awaitOwn", "awaitInFlight"}}

\* Callers suspended on a refresh that has not ended yet.
Waiting == {c \in Pending : ~Settled(callers[c].awaited)}

\* C1: at most one refresh is active at any time, whatever the number of
\* interleaved calls; the calls suspended together on an unfinished refresh
\* all await the single active one, and exactly one of them started it.
C1_SingleFlight ==
  /\ Cardinality(ActiveRefreshes) <= 1
  /\ Cardinality({c \in Pending : callers[c].startedRefresh # 0}) <= 1
  /\ Waiting # {} =>
       /\ Cardinality(ActiveRefreshes) = 1
       /\ \A c \in Waiting : callers[c].awaited \in ActiveRefreshes
       /\ Cardinality({c \in Waiting : callers[c].startedRefresh # 0}) = 1

C1_Witness ==
  \E c, d \in Callers :
    /\ c # d
    /\ callers[c].pc = "awaitOwn"
    /\ callers[d].pc = "awaitInFlight"
    /\ callers[d].awaited = callers[c].awaited
    /\ pipes[callers[c].awaited].status = "running"
    /\ pipes[callers[c].awaited].tried # <<>>

\* What a call of getOrRefresh met: no fresh value, a refresh outstanding,
\* and the slot filled (stale) or empty.
SawStale(f) ==
  /\ f.pc # "idle"
  /\ ~f.sawFresh
  /\ f.markerAtCall # NoRefresh
  /\ f.slotAtCall # <<>>

SawNothing(f) ==
  /\ f.pc # "idle"
  /\ f.markerAtCall # NoRefresh
  /\ f.slotAtCall = <<>>

\* C2: a call that finds no fresh value, a refresh outstanding and a non-empty
\* slot returns the slot's value with stale = TRUE at once: it is never
\* suspended, it awaited nothing and it started no refresh.
C2_StaleWhileRefreshing ==
  /\ \A c \in Callers : ~SawStale(callers[c])
  /\ (last.op = "getOrRefresh" /\ SawStale(last.frame)) =>
       /\ last.ret = [kind |-> "value", value |-> last.frame.slotAtCall,
                      stale |-> TRUE, error |-> <<>>]
       /\ last.args # <<>>
       /\ last.frame.awaited = 0
       /\ last.frame.startedRefresh = 0

C2_Witness ==
  /\ last.op = "getOrRefresh"
  /\ SawStale(last.frame)
  /\ last.ret.stale
  /\ pipes[last.frame.markerAtCall].status = "running"
  /\ now - last.ret.value[1].fetchedAtMs > last.args[1]

\* What holds of a call that met an outstanding refresh and an empty slot,
\* and what the step in which it resumes gives it.
C3_State ==
  /\ \A c \in Callers :
       SawNothing(callers[c]) =>
         /\ callers[c].pc = "awaitInFlight"
         /\ callers[c].awaited = callers[c].markerAtCall
         /\ callers[c].startedRefresh = 0
  /\ (last.op = "getOrRefresh" /\ SawNothing(last.frame)) =>
       /\ last.args = <<>>
       /\ last.frame.awaited = last.frame.markerAtCall
       /\ last.frame.startedRefresh = 0
       /\ ~last.ret.stale

C3_Step ==
  \A c \in Callers :
    (SawNothing(callers[c]) /\ callers'[c].pc = "idle") =>
      LET p == pipes[callers[c].markerAtCall]
      IN  \/ /\ p.status = "resolved"
             /\ last'.ret = [kind |-> "value", value |-> p.result,
                             stale |-> FALSE, error |-> <<>>]
             /\ cache' = p.result
          \/ /\ p.status = "rejected"
             /\ last'.ret = [kind |-> "throw", value |-> <<>>,
                             stale |-> FALSE, error |-> p.error]

\* C3: a call that finds a refresh outstanding and the slot empty starts no
\* refresh, is suspended on the outstanding one, and when it resumes it
\* receives that refresh's outcome: its value with stale = FALSE, or its error.
C3_AwaitOutstanding == []C3_State /\ [][C3_Step]_vars

C3_Witness ==
  /\ last.op = "getOrRefresh"
  /\ SawNothing(last.frame)
  /\ last.ret.kind = "value"
  /\ last.ret.value = cache

\* The slot at a throw, and the steps that may change the slot.
C4_State == last.ret.kind = "throw" => cache = last.frame.slotAtCall

C4_Step ==
  /\ cache' # cache =>
       \E r \in RefreshIds :
         /\ pipes[r].status = "fetched"
         /\ pipes'[r].status = "resolved"
         /\ cache' = pipes[r].result
  /\ \A r \in RefreshIds :
       (pipes[r].status = "failed" /\ pipes'[r].status = "rejected") =>
         cache' = cache

\* C4: a refresh that fails leaves the slot as it is: when a call throws, the
\* slot is what it was when the call was issued, and the slot changes only in
\* the step in which a successful refresh stores its result.
C4_FailureKeepsSlot == []C4_State /\ [][C4_Step]_vars

\* A call that fails with every probe negative while the slot holds a value.
C4_Witness ==
  /\ last.ret.kind = "throw"
  /\ last.ret.error[1].lastErr = <<>>
  /\ last.ret.error[1].checked >= 1
  /\ last.frame.slotAtCall # <<>>
  /\ cache = last.frame.slotAtCall

\* The steps in which the marker is given up.
C5_Step ==
  \A r \in RefreshIds :
    (inFlight = r /\ inFlight' # r) => (Settled(r) /\ inFlight' = NoRefresh)

\* C5: every refresh that holds the marker ends, and once it has ended, with
\* either outcome, the marker is clear; the marker is given up only by the
\* resumption of the caller that started the refresh, once it is settled.
C5_RefreshEnds ==
  /\ \A r \in RefreshIds :
       (inFlight = r) ~>
         (inFlight = NoRefresh /\ pipes[r].status \in {"resolved", "rejected", "collected"})
  /\ [][C5_Step]_vars

\* A second refresh runs after the first one has failed and been cleared.
C5_Witness ==
  /\ started >= 2
  /\ inFlight = started
  /\ pipes[1].status \in {"rejected", "collected"}
  /\ cache = <<>>

\* C6: a call that finds a fresh value returns it with stale = FALSE at once,
\* without being suspended and without starting a refresh, whether or not a
\* refresh is outstanding.
C6_FreshHit ==
  /\ \A c \in Callers : ~callers[c].sawFresh
  /\ (last.op = "getOrRefresh" /\ last.frame.sawFresh) =>
       /\ last.ret = [kind |-> "value", value |-> last.frame.slotAtCall,
                      stale |-> FALSE, error |-> <<>>]
       /\ last.args # <<>>
       /\ last.frame.awaited = 0
       /\ last.frame.startedRefresh = 0

\* A fresh hit at the boundary of maxAge while a refresh is running.
C6_Witness ==
  /\ last.op = "getOrRefresh"
  /\ last.frame.sawFresh
  /\ last.ret.kind = "value"
  /\ last.args[2] - last.ret.value[1].fetchedAtMs = last.args[1]
  /\ last.args[1] > 0
  /\ last.frame.markerAtCall # NoRefresh
  /\ pipes[last.frame.markerAtCall].status = "running"

\* What a read returns, and what the step of a read leaves alone.
C7_State ==
  last.op = "read" =>
    last.ret =
      IF last.frame.slotAtCall # <<>>
           /\ last.args[2] - last.frame.slotAtCall[1].fetchedAtMs <= last.args[1]
      THEN [kind |-> "value", value |-> last.frame.slotAtCall,
            stale |-> FALSE, error |-> <<>>]
      ELSE [kind |-> "null", value |-> <<>>, stale |-> FALSE, error |-> <<>>]

C7_Step ==
  last'.op = "read" =>
    (cache' = cache /\ inFlight' = inFlight /\ pipes' = pipes /\ last'.frame.slotAtCall = cache)

\* C7: read(maxAge) returns the slot's value exactly when the slot is filled
\* and now - fetchedAt <= maxAge, none otherwise, and changes neither the slot
\* nor the marker.
C7_Read == []C7_State /\ [][C7_Step]_vars

C7_Witness ==
  /\ last.op = "read"
  /\ last.ret.kind = "value"
  /\ last.args[1] > 0
  /\ now - cache[1].fetchedAtMs = last.args[1]
  /\ inFlight # NoRefresh


(* ======================= properties of the fetcher ===================== *)

Succeeded(e) == e.exists = "true" /\ e.pdf = "buffer" /\ e.parse = "text"
Absent(e) == e.exists = "false"
Failed(e) == e.exists = "throw" \/ e.pdf = "throw" \/ e.parse = "throw"

Started(p) == p.status \in {"running", "fetched", "failed", "resolved", "rejected"}
Success(p) == p.status \in {"fetched", "resolved"}
Failure(p) == p.status \in {"failed", "rejected"}

Min(S) == CHOOSE x \in S : \A y \in S : x <= y
Max(S) == CHOOSE x \in S : \A y \in S : x >= y

\* The error a failed candidate raised.
ErrorOf(e) ==
  [kind |-> IF e.exists = "throw" THEN "ProbeTransportError"
            ELSE IF e.pdf = "throw" THEN "RetrievalError"
            ELSE "ExtractionError",
   cand |-> e.cand]

\* C8, as the claim states it: a successful fetch returns the artifact of the first
\* candidate whose existence probe is positive, and the search stops there.
C8_FirstExistingWins ==
  \A r \in RefreshIds :
    Success(pipes[r]) =>
      LET p == pipes[r]
          existing == {k \in 1..Len(p.tried) : p.tried[k].exists = "true"}
      IN  /\ p.result[1].sourceUrl = p.candidates[Min(existing)].url
          /\ Len(p.tried) = Min(existing)

\* The artifact of a successful run, and the steps after its success.
C8_State ==
  \A r \in RefreshIds :
    Success(pipes[r]) =>
      LET p == pipes[r]
          k == Len(p.tried)
      IN  /\ k >= 1
          /\ k <= Len(p.candidates)
          /\ \A j \in 1..k : p.tried[j].cand = j
          /\ Succeeded(p.tried[k])
          /\ \A j \in 1..(k - 1) : ~Succeeded(p.tried[j])
          /\ p.result[1].sourceUrl = p.candidates[k].url
          /\ p.result[1].reportLabel = p.candidates[k].label

C8_Step ==
  \A r \in RefreshIds :
    Success(pipes[r]) =>
      \/ pipes'[r].status = "collected"
      \/ /\ Success(pipes'[r])
         /\ pipes'[r].tried = pipes[r].tried
         /\ pipes'[r].result = pipes[r].result

\* C8, amended: a successful fetch returns the artifact of the first candidate,
\* in list order, whose existence probe is positive and whose retrieval and
\* text extraction succeed; the search stops at that candidate: no later
\* candidate is probed, then or afterwards.
C8_FirstUsableWins == []C8_State /\ [][C8_Step]_vars

\* The first candidate exists but cannot be retrieved; the second one wins.
C8_Witness ==
  \E r \in RefreshIds :
    /\ Success(pipes[r])
    /\ Len(pipes[r].tried) = 2
    /\ pipes[r].tried[1].exists = "true"
    /\ Len(pipes[r].candidates) >= 2

\* C9: candidates are handled one at a time in list order: a candidate is
\* probed only after every earlier one was found absent or has failed; a
\* retrieval or extraction failure on a candidate that exists is recorded as
\* the last error and the refresh goes on with the next candidate (it ends,
\* as exhausted, only when the failed candidate was the last one).
C9_InOrder ==
  \A r \in RefreshIds :
    Started(pipes[r]) =>
      LET p == pipes[r]
          n == Len(p.tried)
      IN  /\ n <= Len(p.candidates)
          /\ \A j \in 1..n : p.tried[j].cand = j
          /\ \A j \in 1..(n - 1) : Absent(p.tried[j]) \/ Failed(p.tried[j])
          /\ (p.status = "running" /\ p.stage = "probe") =>
               (p.i = n + 1 /\ \A j \in 1..n : Absent(p.tried[j]) \/ Failed(p.tried[j]))
          /\ (p.status = "running" /\ p.stage # "probe") =>
               (p.i = n /\ p.tried[n].exists = "true")
          /\ (n >= 1 /\ (p.tried[n].pdf = "throw" \/ p.tried[n].parse = "throw")) =>
               /\ p.tried[n].exists = "true"
               /\ p.lastErr = <<ErrorOf(p.tried[n])>>
               /\ IF n < Len(p.candidates)
                  THEN p.status = "running" /\ p.stage = "probe" /\ p.i = n + 1
                  ELSE Failure(p)

\* After a retrieval failure on the first candidate the second one is probed.
C9_Witness ==
  \E r \in RefreshIds :
    /\ Started(pipes[r])
    /\ Len(pipes[r].tried) = 2
    /\ pipes[r].tried[1].pdf = "throw"
    /\ pipes[r].tried[2].exists = "true"

\* C10: the pipeline fails exactly when no candidate of the list yields an
\* artifact; the failure carries the number of candidates, all of which were
\* tried, and the error of the last candidate that raised one (none when
\* every candidate was absent).
C10_Exhausted ==
  \A r \in RefreshIds :
    LET p == pipes[r]
        failed == {j \in 1..Len(p.tried) : Failed(p.tried[j])}
    IN  /\ Success(p) => \E j \in 1..Len(p.tried) : Succeeded(p.tried[j])
        /\ Failure(p) =>
             /\ \A j \in 1..Len(p.tried) : ~Succeeded(p.tried[j])
             /\ Len(p.tried) = Len(p.candidates)
             /\ p.result = <<>>
             /\ p.error =
                  <<[checked |-> Len(p.candidates),
                     lastErr |-> IF failed = {} THEN <<>>
                                 ELSE <<ErrorOf(p.tried[Max(failed)])>>]>>
        /\ (p.status = "running") =>
             (p.error = <<>> /\ \A j \in 1..Len(p.tried) : ~Succeeded(p.tried[j]))

\* Both candidates raised an error; the failure names the second one's.
C10_Witness ==
  \E r \in RefreshIds :
    /\ Failure(pipes[r])
    /\ Len(pipes[r].candidates) = 2
    /\ Failed(pipes[r].tried[1])
    /\ Failed(pipes[r].tried[2])
    /\ pipes[r].error[1].checked = 2
    /\ pipes[r].error[1].lastErr[1].cand = 2

\* C11: a HEAD request that executes decides existence by itself (non-OK is
\* "does not exist") and no GET request is sent; the fallback GET is sent
\* exactly when the HEAD request fails in transport, and its answer decides
\* existence; a transport failure of the fallback makes the candidate fail
\* recoverably: nothing is retrieved from it, the error is recorded and the
\* search goes on with the next candidate (or ends as exhausted).
C11_ProbeFallback ==
  \A r \in RefreshIds :
    Started(pipes[r]) =>
      LET p == pipes[r]
          n == Len(p.tried)
      IN  /\ \A j \in 1..n :
               LET e == p.tried[j]
               IN  /\ e.head = "notok" => (e.get = "-" /\ e.exists = "false")
                   /\ e.head = "ok" => (e.get = "-" /\ e.exists = "true")
                   /\ e.get # "-" <=> e.head = "fail"
                   /\ e.head = "fail" =>
                        /\ e.get = "ok" => e.exists = "true"
                        /\ e.get = "notok" => e.exists = "false"
                        /\ e.get = "fail" => e.exists = "throw"
                   /\ e.exists = "throw" =>
                        (e.get = "fail" /\ e.pdf = "-" /\ e.parse = "-")
                   /\ e.exists = "false" => (e.pdf = "-" /\ e.parse = "-")
          /\ (n >= 1 /\ p.tried[n].exists = "throw") =>
               /\ p.lastErr = <<[kind |-> "ProbeTransportError", cand |-> n]>>
               /\ IF n < Len(p.candidates)
                  THEN p.status = "running" /\ p.stage = "probe" /\ p.i = n + 1
                  ELSE Failure(p)

\* The first candidate's HEAD executed and answered non-OK, the second one's
\* HEAD and fallback GET both failed in transport.
C11_Witness ==
  \E r \in RefreshIds :
    /\ Failure(pipes[r])
    /\ Len(pipes[r].tried) = 2
    /\ pipes[r].tried[1].head = "notok"
    /\ pipes[r].tried[1].get = "-"
    /\ pipes[r].tried[2].head = "fail"
    /\ pipes[r].tried[2].get = "fail"

(* ================= the candidate generator on its own ================== *)

\* The instants, look-back depths and step widths buildCandidateUrls is
\* called with: instants on both sides of the end of daylight saving time
\* (and of midnight, once steps are taken back), steps of a quarter, half
\* and full hour.
GenNows == 0..GenNowMax
GenLookbacks == 0..GenLookbackMax
GenSteps == {15, 30, 60}

GenInit ==
  /\ PipelineInit
  /\ NbaIdle
  /\ ParseIdle
  /\ libArgs \in [nowDate : GenNows, lookbackSteps : GenLookbacks,
                   stepMinutes : GenSteps]
  /\ libOut = NotCalled

\* const candidates = buildCandidateUrls(now, lookbackSteps, stepMinutes)
CallBuildCandidateUrls ==
  /\ ~libOut.called
  /\ libOut' = Called(buildCandidateUrls(libArgs.nowDate,
                        libArgs.lookbackSteps, libArgs.stepMinutes))
  /\ UNCHANGED <<pipelineVars, nbaVars, libArgs, parseVars>>

GenNext == CallBuildCandidateUrls

GenSpec == GenInit /\ [][GenNext]_vars

(* ================= properties of the candidate generator =============== *)

\* The i-th raw instant (i = 0 is now), and its URL.
RawInstant(i) == libArgs.nowDate - i * libArgs.stepMinutes
RawUrl(i) == CandidateAt(RawInstant(i)).url

\* The raw steps whose URL no more recent step has, and the ones dropped.
FirstOccurrences ==
  {i \in 0..libArgs.lookbackSteps : \A j \in 0..(i - 1) : RawUrl(j) # RawUrl(i)}
Collisions == (0..libArgs.lookbackSteps) \ FirstOccurrences

\* The k-th smallest element of a set of numbers.
Nth(S, k) == CHOOSE x \in S : Cardinality({y \in S : y <= x}) = k

UpperCase ==
  {"A", "B", "C", "D", "E", "F", "G", "H", "I", "J", "K", "L", "M",
   "N", "O", "P", "Q", "R", "S", "T", "U", "V", "W", "X", "Y", "Z"}
LowerCase ==
  {"a", "b", "c", "d", "e", "f", "g", "h", "i", "j", "k", "l", "m",
   "n", "o", "p", "q", "r", "s", "t", "u", "v", "w", "x", "y", "z"}
Digits == {"0", "1", "2", "3", "4", "5", "6", "7", "8", "9"}
Letters == UpperCase \cup LowerCase
\* \w and \s of the regular expressions
WordChars == Letters \cup Digits \cup {"_"}
WhiteSpace == {" ", "\t", "\n", "\r"}

\* The character of s at position k (1-based), "" outside of s.
CharAt(s, k) == IF k >= 1 /\ k <= Len(s) THEN SubSeq(s, k, k) ELSE ""

\* Does the literal lit occur in s at position k?
LiteralAt(s, k, lit) ==
  /\ k >= 1
  /\ k + Len(lit) - 1 <= Len(s)
  /\ SubSeq(s, k, k + Len(lit) - 1) = lit

\* The number of characters of s from position k on that belong to class.
RECURSIVE RunLength(_, _, _)
RunLength(s, k, class) ==
  IF CharAt(s, k) \in class THEN 1 + RunLength(s, k + 1, class) ELSE 0

\* Length of the match of /[A-Z]{2,3}@[A-Z]{2,3}/ that starts at k, 0 if none.
MatchupAt(s, k) ==
  LET up == RunLength(s, k, UpperCase)
      a == IF up >= 3 /\ CharAt(s, k + 3) = "@" THEN 3
           ELSE IF up >= 2 /\ CharAt(s, k + 2) = "@" THEN 2 ELSE 0
      b == IF a = 0 THEN 0 ELSE RunLength(s, k + a + 1, UpperCase)
  IN  IF a = 0 \/ b < 2 THEN 0 ELSE a + 1 + (IF b >= 3 THEN 3 ELSE 2)

StatusWords == <<"Out", "Doubtful", "Questionable", "Probable">>

\* Length of the match of /(Out|Doubtful|Questionable|Probable)/ at k, 0 if none.
StatusWordAt(s, k) ==
  IF \E n \in 1..Len(StatusWords) : LiteralAt(s, k, StatusWords[n])
  THEN Len(StatusWords[CHOOSE n \in 1..Len(StatusWords) :
                         LiteralAt(s, k, StatusWords[n])])
  ELSE 0

\* x.replace(/([A-Z]{2,3}@[A-Z]{2,3})/g, " $1 "), from position k on
RECURSIVE SeparateMatchups(_, _)
SeparateMatchups(s, k) ==
  IF k > Len(s) THEN ""
  ELSE LET n == MatchupAt(s, k)
       IN  IF n > 0
           THEN " " \o SubSeq(s, k, k + n - 1) \o " " \o SeparateMatchups(s, k + n)
           ELSE CharAt(s, k) \o SeparateMatchups(s, k + 1)

\* x.replace(/(Out|Doubtful|Questionable|Probable)/g, " $1 ")
RECURSIVE SeparateStatusWords(_, _)
SeparateStatusWords(s, k) ==
  IF k > Len(s) THEN ""
  ELSE LET n == StatusWordAt(s, k)
       IN  IF n > 0
           THEN " " \o SubSeq(s, k, k + n - 1) \o " " \o SeparateStatusWords(s, k + n)
           ELSE CharAt(s, k) \o SeparateStatusWords(s, k + 1)

\* s.replace(/lit/g, by) for a literal lit
RECURSIVE ReplaceLiteral(_, _, _, _)
ReplaceLiteral(s, k, lit, by) ==
  IF k > Len(s) THEN ""
  ELSE IF LiteralAt(s, k, lit)
       THEN by \o ReplaceLiteral(s, k + Len(lit), lit, by)
       ELSE CharAt(s, k) \o ReplaceLiteral(s, k + 1, lit, by)

\* The zero-width places where the three look-around rules insert a space:
\* between the characters at k - 1 and k.
LowerToUpper(s, k) == CharAt(s, k - 1) \in LowerCase /\ CharAt(s, k) \in UpperCase
UpperToTitle(s, k) ==
  /\ CharAt(s, k - 1) \in UpperCase
  /\ CharAt(s, k) \in UpperCase
  /\ CharAt(s, k + 1) \in LowerCase
DigitToLetter(s, k) == CharAt(s, k - 1) \in Digits /\ CharAt(s, k) \in Letters
ParenToWord(s, k) == CharAt(s, k - 1) = ")" /\ CharAt(s, k) \in WordChars

\* x.replace(/<boundary>/g, " "): a space before every character at which
\* Boundary holds; the look-arounds read the text as it was before the pass.
Boundary(rule, s, k) ==
  CASE rule = "\\)(?=\\w)" -> ParenToWord(s, k)
    [] rule = "(?<=[a-z])(?=[A-Z])" -> LowerToUpper(s, k)
    [] rule = "(?<=[A-Z])(?=[A-Z][a-z])" -> UpperToTitle(s, k)
    [] rule = "(?<=[0-9])(?=[A-Za-z])" -> DigitToLetter(s, k)

RECURSIVE SplitAt(_, _, _)
SplitAt(s, k, rule) ==
  IF k > Len(s) THEN ""
  ELSE (IF Boundary(rule, s, k) THEN " " ELSE "") \o CharAt(s, k)
       \o SplitAt(s, k + 1, rule)

\* Variant: white space is left as it is.
CollapseWhiteSpace_keep(s, k) == SubSeq(s, k, Len(s))

\* x.replace(/\s+/g, " "): every run of white space becomes one space.
RECURSIVE CollapseWhiteSpace(_, _)
CollapseWhiteSpace(s, k) ==
  IF k > Len(s) THEN ""
  ELSE IF CharAt(s, k) \in WhiteSpace
       THEN " " \o CollapseWhiteSpace(s, k + RunLength(s, k, WhiteSpace))
       ELSE CharAt(s, k) \o CollapseWhiteSpace(s, k + 1)

\* String.prototype.trim
RECURSIVE TrimEnd(_)
TrimEnd(s) ==
  IF s # "" /\ CharAt(s, Len(s)) \in WhiteSpace
  THEN TrimEnd(SubSeq(s, 1, Len(s) - 1)) ELSE s

Trim(s) ==
  LET lead == RunLength(s, 1, WhiteSpace)
  IN  TrimEnd(SubSeq(s, lead + 1, Len(s)))

normalizeForParsing(s) ==
  LET x1 == SeparateMatchups(s, 1)
      x2 == SeparateStatusWords(x1, 1)
      x3 == ReplaceLiteral(x2, 1, ",", ", ")
      x4 == ReplaceLiteral(x3, 1, "GLeague", "G League")
      x5 == SplitAt(x4, 1, "\\)(?=\\w)")
      x6 == SplitAt(x5, 1, "(?<=[a-z])(?=[A-Z])")
      x7 == SplitAt(x6, 1, "(?<=[A-Z])(?=[A-Z][a-z])")
      x8 == SplitAt(x7, 1, "(?<=[0-9])(?=[A-Za-z])")
  IN  Trim(CollapseWhiteSpace(x8, 1))

\* The first position from k on at which a matchup code starts, 0 if none.
RECURSIVE FirstMatchup(_, _)
FirstMatchup(s, k) ==
  IF k > Len(s) THEN 0
  ELSE IF MatchupAt(s, k) > 0 THEN k ELSE FirstMatchup(s, k + 1)

\* /[A-Z]{2,3}@[A-Z]{2,3}/.test(tok)
HasMatchup(tok) == FirstMatchup(tok, 1) > 0

AllIn(s, k, n, class) == \A j \in k..(k + n - 1) : CharAt(s, j) \in class

\* /\d{2}\/\d{2}\/\d{4}/.test(tok)
HasDate(tok) ==
  \E k \in 1..Len(tok) :
    /\ AllIn(tok, k, 2, Digits) /\ CharAt(tok, k + 2) = "/"
    /\ AllIn(tok, k + 3, 2, Digits) /\ CharAt(tok, k + 5) = "/"
    /\ AllIn(tok, k + 6, 4, Digits)

\* /\d{1,2}:\d{2}\(ET\)/.test(tok)
HasTimeET(tok) ==
  \E k \in 1..Len(tok) :
    /\ CharAt(tok, k) \in Digits /\ CharAt(tok, k + 1) = ":"
    /\ AllIn(tok, k + 2, 2, Digits) /\ LiteralAt(tok, k + 4, "(ET)")

\* tok.includes(ch)
Includes(tok, ch) == \E k \in 1..Len(tok) : CharAt(tok, k) = ch

\* /^[A-Za-z]+$/.test(tok)
IsAlphabetic(tok) == tok # "" /\ AllIn(tok, 1, Len(tok), Letters)

UpperCaseSeq ==
  <<"A", "B", "C", "D", "E", "F", "G", "H", "I", "J", "K", "L", "M",
    "N", "O", "P", "Q", "R", "S", "T", "U", "V", "W", "X", "Y", "Z">>
LowerCaseSeq ==
  <<"a", "b", "c", "d", "e", "f", "g", "h", "i", "j", "k", "l", "m",
    "n", "o", "p", "q", "r", "s", "t", "u", "v", "w", "x", "y", "z">>

\* The character c with its case changed: from the alphabet `from` to `to`.
MapCase(c, from, to) ==
  IF \E n \in 1..26 : from[n] = c
  THEN to[CHOOSE n \in 1..26 : from[n] = c]
  ELSE c

RECURSIVE toLowerCase(_)
toLowerCase(s) ==
  IF s = "" THEN ""
  ELSE MapCase(Head(s), UpperCaseSeq, LowerCaseSeq) \o toLowerCase(Tail(s))

RECURSIVE toUpperCase(_)
toUpperCase(s) ==
  IF s = "" THEN ""
  ELSE MapCase(Head(s), LowerCaseSeq, UpperCaseSeq) \o toUpperCase(Tail(s))

\* The number of characters from position k on up to the next white space.
RECURSIVE TokenLength(_, _)
TokenLength(s, k) ==
  IF k > Len(s) \/ CharAt(s, k) \in WhiteSpace THEN 0
  ELSE 1 + TokenLength(s, k + 1)

\* normalized.split(/\s+/).filter(Boolean), from position k on: the maximal
\* runs of characters that are not white space.
RECURSIVE SplitOnWhiteSpace(_, _)
SplitOnWhiteSpace(s, k) ==
  IF k > Len(s) THEN <<>>
  ELSE IF CharAt(s, k) \in WhiteSpace THEN SplitOnWhiteSpace(s, k + 1)
  ELSE LET n == TokenLength(s, k)
       IN  <<SubSeq(s, k, k + n - 1)>> \o SplitOnWhiteSpace(s, k + n)

TEAM_TAILS ==
  {"Hawks", "Celtics", "Nets", "Hornets", "Bulls", "Cavaliers", "Mavericks",
   "Nuggets", "Pistons", "Warriors", "Rockets", "Pacers", "Clippers",
   "Lakers", "Grizzlies", "Heat", "Bucks", "Timberwolves", "Pelicans",
   "Knicks", "Thunder", "Magic", "Suns", "Spurs", "Raptors", "Jazz",
   "Wizards", "Kings", "Blazers", "76ers", "Sixers"}

InjuryStatus == {"Out", "Doubtful", "Questionable", "Probable"}

isStatusToken(t) == t \in InjuryStatus

\* The words that end the backward scan, compared in lower case.
NoiseWords ==
  {"injury", "illness", "contusion", "fracture", "management",
   "injurymanagement", "recovery", "rest", "notyetsubmitted"}

\* The tests of the backward scan that make it stop at tok: a date, a time,
\* a matchup code, a slash, a marker word, a noise word, an all-capitals
\* token of four characters or more, a token that is not alphabetic.
StopsScan(tok) ==
  \/ HasDate(tok)
  \/ HasTimeET(tok)
  \/ HasMatchup(tok)
  \/ Includes(tok, "/")
  \/ tok \in {"GLeague", "Two-Way", "On", "Assignment"}
  \/ toLowerCase(tok) \in NoiseWords
  \/ (tok = toUpperCase(tok) /\ Len(tok) >= 4)
  \/ ~IsAlphabetic(tok)

\* Variant: a token that meets a stop condition is passed over.
RECURSIVE ScanBack_passOver(_, _, _)
ScanBack_passOver(toks, j, parts) ==
  IF j < 1 \/ Len(parts) >= 4 THEN parts
  ELSE IF StopsScan(toks[j]) THEN ScanBack_passOver(toks, j - 1, parts)
  ELSE ScanBack_passOver(toks, j - 1, <<toks[j]>> \o parts)

\* for (let j = tailIndex - 1; j >= 0 && parts.length < 4; j--): the parts
\* collected when the scan stands at token j (tokens are numbered from 1).
RECURSIVE ScanBack(_, _, _)
ScanBack(toks, j, parts) ==
  IF j < 1 \/ Len(parts) >= 4 THEN parts
  ELSE IF StopsScan(toks[j]) THEN parts
  ELSE ScanBack(toks, j - 1, <<toks[j]>> \o parts)

\* parts.join(sep)
RECURSIVE Join(_, _)
Join(parts, sep) ==
  IF parts = <<>> THEN ""
  ELSE IF Len(parts) = 1 THEN parts[1]
  ELSE parts[1] \o sep \o Join(Tail(parts), sep)

\* Variant of the resolver: no special case for the one-word name.
buildTeamName_noSpecialCase(toks, tailIndex) ==
  LET parts == ScanBack(toks, tailIndex - 1, <<toks[tailIndex]>>)
  IN  IF parts[Len(parts)] \notin TEAM_TAILS \/ Len(parts) < 2 THEN <<>>
      ELSE <<Join(parts, " ")>>

\* buildTeamName: the name, or null (<<>>).
buildTeamName(toks, tailIndex) ==
  LET parts == ScanBack(toks, tailIndex - 1, <<toks[tailIndex]>>)
      name == Join(parts, " ")
  IN  IF parts[Len(parts)] \notin TEAM_TAILS THEN <<>>
      ELSE IF name = "76ers" THEN <<"Philadelphia 76ers">>
      ELSE IF Len(parts) < 2 THEN <<>>
      ELSE <<name>>

NoCounts == [Out |-> 0, Doubtful |-> 0, Questionable |-> 0, Probable |-> 0]

\* The summary of a team, zero-initialized on the first reference to it.
TeamEntry(byTeam, teamName) ==
  IF teamName \in DOMAIN byTeam THEN byTeam[teamName]
  ELSE [teamName |-> teamName, counts |-> NoCounts, players |-> <<>>]

\* Variant: a status is counted only when it comes without a player.
bump_countOrPlayer(byTeam, teamName, status, player) ==
  LET e == TeamEntry(byTeam, teamName)
      counted == IF player = <<>> THEN [e EXCEPT !.counts[status] = @ + 1]
                 ELSE [e EXCEPT !.players = @ \o player]
  IN  [n \in DOMAIN byTeam \cup {teamName} |->
         IF n = teamName THEN counted ELSE byTeam[n]]

\* bump: byTeamName after the call; player is <<>> when it is not passed.
bump(byTeam, teamName, status, player) ==
  LET e == TeamEntry(byTeam, teamName)
      counted == [e EXCEPT !.counts[status] = @ + 1, !.players = @ \o player]
  IN  [n \in DOMAIN byTeam \cup {teamName} |->
         IF n = teamName THEN counted ELSE byTeam[n]]

\* pdfText.replace(/\r?\n/g, " ")
RECURSIVE ReplaceNewlines(_, _)
ReplaceNewlines(s, k) ==
  IF k > Len(s) THEN ""
  ELSE IF LiteralAt(s, k, "\r\n") THEN " " \o ReplaceNewlines(s, k + 2)
  ELSE IF CharAt(s, k) = "\n" THEN " " \o ReplaceNewlines(s, k + 1)
  ELSE CharAt(s, k) \o ReplaceNewlines(s, k + 1)

\* Length of the match of /InjuryReport:[^\s]+/ at k, 0 if none.
ReportIdAt(s, k) ==
  IF LiteralAt(s, k, "InjuryReport:") /\ TokenLength(s, k + 13) >= 1
  THEN 13 + TokenLength(s, k + 13) ELSE 0

\* Length of the match of /Page\d+of\d+/ at k, 0 if none.
PageFooterAt(s, k) ==
  LET d1 == RunLength(s, k + 4, Digits)
      d2 == RunLength(s, k + 4 + d1 + 2, Digits)
  IN  IF /\ LiteralAt(s, k, "Page") /\ d1 >= 1
         /\ LiteralAt(s, k + 4 + d1, "of") /\ d2 >= 1
      THEN 4 + d1 + 2 + d2 ELSE 0

\* .replace(/InjuryReport:[^\s]+/g, " ")
RECURSIVE StripReportIds(_, _)
StripReportIds(s, k) ==
  IF k > Len(s) THEN ""
  ELSE IF ReportIdAt(s, k) > 0
       THEN " " \o StripReportIds(s, k + ReportIdAt(s, k))
       ELSE CharAt(s, k) \o StripReportIds(s, k + 1)

\* .replace(/Page\d+of\d+/g, " ")
RECURSIVE StripPageFooters(_, _)
StripPageFooters(s, k) ==
  IF k > Len(s) THEN ""
  ELSE IF PageFooterAt(s, k) > 0
       THEN " " \o StripPageFooters(s, k + PageFooterAt(s, k))
       ELSE CharAt(s, k) \o StripPageFooters(s, k + 1)

ColumnHeader == "GameDateGameTimeMatchupTeamPlayerNameCurrentStatusReason"

\* The argument of normalizeForParsing: the text without its line breaks,
\* report ids, page footers and column headers.
StripBoilerplate(text) ==
  ReplaceLiteral(
    StripPageFooters(StripReportIds(ReplaceNewlines(text, 1), 1), 1),
    1, ColumnHeader, " ")

(* ---------------- summarizeInjuriesFromPdfText, step by step ----------- *)

\* The token of the current iteration.
CurrentToken == tokens[tokenIndex]

\* Variant: the loop body is never entered.
InLoop_never == FALSE

InLoop == summarizePc = "loop" /\ tokenIndex <= Len(tokens)

\* The branch of the loop body that the current token takes, and the end of
\* the loop.
AtTeamTail == InLoop /\ CurrentToken \in TEAM_TAILS
AtPlayer ==
  InLoop /\ CurrentToken \notin TEAM_TAILS /\ Includes(CurrentToken, ",")
AtStatus ==
  /\ InLoop
  /\ CurrentToken \notin TEAM_TAILS
  /\ ~Includes(CurrentToken, ",")
  /\ isStatusToken(CurrentToken)
AtOther ==
  /\ InLoop
  /\ CurrentToken \notin TEAM_TAILS
  /\ ~Includes(CurrentToken, ",")
  /\ ~isStatusToken(CurrentToken)
AtEnd == summarizePc = "loop" /\ tokenIndex > Len(tokens)

\* Variant: the reason tokens are run together.
ReasonOf_unspaced(p) == Trim(Join(p.reasonTokens, ""))

\* pendingPlayer.reasonTokens.join(" ").trim()
ReasonOf(p) == Trim(Join(p.reasonTokens, " "))

\* Variant: a pending player met with no team active is dropped.
flushPending_dropOrphan ==
  IF pendingPlayer = <<>> \/ currentTeamName = <<>>
  THEN [byTeamName |-> byTeamName, pendingPlayer |-> <<>>]
  ELSE [byTeamName |->
          bump(byTeamName, currentTeamName[1], pendingPlayer[1].status,
               <<[name |-> pendingPlayer[1].name,
                  status |-> pendingPlayer[1].status,
                  reason |-> ReasonOf(pendingPlayer[1])]>>),
        pendingPlayer |-> <<>>]

\* flushPending: byTeamName and pendingPlayer after the call.
flushPending ==
  IF pendingPlayer = <<>> \/ currentTeamName = <<>>
  THEN [byTeamName |-> byTeamName, pendingPlayer |-> pendingPlayer]
  ELSE [byTeamName |->
          bump(byTeamName, currentTeamName[1], pendingPlayer[1].status,
               <<[name |-> pendingPlayer[1].name,
                  status |-> pendingPlayer[1].status,
                  reason |-> ReasonOf(pendingPlayer[1])]>>),
        pendingPlayer |-> <<>>]

\* t.replace(/,$/, "")
StripFinalComma(t) ==
  IF CharAt(t, Len(t)) = "," THEN SubSeq(t, 1, Len(t) - 1) ELSE t

\* const normalized = ...; const tokens = normalized.split(/\s+/).filter(Boolean)
Tokenize ==
  /\ summarizePc = "start"
  /\ tokens' = SplitOnWhiteSpace(normalizeForParsing(StripBoilerplate(pdfText)), 1)
  /\ tokenIndex' = 1
  /\ summarizePc' = "loop"
  /\ UNCHANGED <<pipelineVars, nbaVars, libArgs, libOut, pdfText, currentTeamName,
                 pendingPlayer, byTeamName>>

\* Variant: the team context takes the resolver's answer, null included.
NextTeam_always(name) == name

\* if (name) currentTeamName = name
NextTeam(name) == IF name # <<>> THEN name ELSE currentTeamName

\* if (TEAM_TAILS.has(t)) { flushPending(); ...; continue; }
TeamTailToken ==
  /\ AtTeamTail
  /\ LET flushed == flushPending
         name == buildTeamName(tokens, tokenIndex)
     IN  /\ byTeamName' = flushed.byTeamName
         /\ pendingPlayer' = flushed.pendingPlayer
         /\ currentTeamName' = NextTeam(name)
  /\ tokenIndex' = tokenIndex + 1
  /\ UNCHANGED <<pipelineVars, nbaVars, libArgs, libOut, pdfText, tokens, summarizePc>>

\* Variant: the next token is taken as the first name whatever it holds.
FirstNameAfter_any(toks, k) == IF k + 1 <= Len(toks) THEN toks[k + 1] ELSE ""

\* The first name a comma token takes with it: the next token when there is
\* one and it has no comma, "" otherwise.
FirstNameAfter(toks, k) ==
  IF k + 1 <= Len(toks) /\ ~Includes(toks[k + 1], ",") THEN toks[k + 1] ELSE ""

\* Variant: a player is opened with the status Questionable.
NewPlayer_questionable(toks, k) ==
  LET lastName == StripFinalComma(toks[k])
      first == FirstNameAfter(toks, k)
  IN  [name |-> IF first # "" THEN lastName \o ", " \o first ELSE lastName,
       status |-> "Questionable", reasonTokens |-> <<>>]

\* The player a comma token opens.
NewPlayer(toks, k) ==
  LET lastName == StripFinalComma(toks[k])
      first == FirstNameAfter(toks, k)
  IN  [name |-> IF first # "" THEN lastName \o ", " \o first ELSE lastName,
       status |-> "Out", reasonTokens |-> <<>>]

\* if (t.includes(",")) { flushPending(); ...; continue; }
PlayerToken ==
  /\ AtPlayer
  /\ byTeamName' = flushPending.byTeamName
  /\ pendingPlayer' = <<NewPlayer(tokens, tokenIndex)>>
  /\ tokenIndex' = IF FirstNameAfter(tokens, tokenIndex) # ""
                   THEN tokenIndex + 2 ELSE tokenIndex + 1
  /\ UNCHANGED <<pipelineVars, nbaVars, libArgs, libOut, pdfText, tokens,
                 currentTeamName, summarizePc>>

\* Variant: a status with no player pending is not counted.
CountWithoutPlayer_never(t) == byTeamName

\* The status token t met with no player pending.
CountWithoutPlayer(t) ==
  IF currentTeamName # <<>> THEN bump(byTeamName, currentTeamName[1], t, <<>>)
  ELSE byTeamName

\* Variant: a status token is counted also when a player is pending.
StatusToken_countAlways ==
  /\ AtStatus
  /\ byTeamName' = CountWithoutPlayer(CurrentToken)
  /\ pendingPlayer' =
       IF pendingPlayer # <<>>
       THEN <<[pendingPlayer[1] EXCEPT
                 !.status = CurrentToken, !.reasonTokens = <<>>]>>
       ELSE pendingPlayer
  /\ tokenIndex' = tokenIndex + 1
  /\ UNCHANGED <<pipelineVars, nbaVars, libArgs, libOut, pdfText, tokens,
                 currentTeamName, summarizePc>>

\* Variant: a status token leaves the reason tokens gathered so far.
StatusToken_keepReason ==
  /\ AtStatus
  /\ IF pendingPlayer # <<>>
     THEN /\ pendingPlayer' = <<[pendingPlayer[1] EXCEPT !.status = CurrentToken]>>
          /\ byTeamName' = byTeamName
     ELSE /\ byTeamName' = CountWithoutPlayer(CurrentToken)
          /\ pendingPlayer' = pendingPlayer
  /\ tokenIndex' = tokenIndex + 1
  /\ UNCHANGED <<pipelineVars, nbaVars, libArgs, libOut, pdfText, tokens,
                 currentTeamName, summarizePc>>

\* if (isStatusToken(t)) { ...; continue; }
StatusToken ==
  /\ AtStatus
  /\ IF pendingPlayer # <<>>
     THEN /\ pendingPlayer' = <<[pendingPlayer[1] EXCEPT
                                   !.status = CurrentToken, !.reasonTokens = <<>>]>>
          /\ byTeamName' = byTeamName
     ELSE /\ byTeamName' = CountWithoutPlayer(CurrentToken)
          /\ pendingPlayer' = pendingPlayer
  /\ tokenIndex' = tokenIndex + 1
  /\ UNCHANGED <<pipelineVars, nbaVars, libArgs, libOut, pdfText, tokens,
                 currentTeamName, summarizePc>>

\* The tokens that are never part of a reason.
NoiseTokens == {"-", "Â·"}

\* if (pendingPlayer) { if (noise) continue; pendingPlayer.reasonTokens.push(t); }
OtherToken ==
  /\ AtOther
  /\ pendingPlayer' =
       IF pendingPlayer # <<>> /\ CurrentToken \notin NoiseTokens
       THEN <<[pendingPlayer[1] EXCEPT !.reasonTokens = Append(@, CurrentToken)]>>
       ELSE pendingPlayer
  /\ tokenIndex' = tokenIndex + 1
  /\ UNCHANGED <<pipelineVars, nbaVars, libArgs, libOut, pdfText, tokens,
                 currentTeamName, byTeamName, summarizePc>>

\* Variant: the summary is returned without the final flush.
ReturnSummary_noFlush ==
  /\ AtEnd
  /\ summarizePc' = "done"
  /\ UNCHANGED <<pipelineVars, nbaVars, libArgs, libOut, pdfText, tokens, tokenIndex,
                 currentTeamName, pendingPlayer, byTeamName>>

\* The loop has ended: flushPending(); return { byTeamName }
ReturnSummary ==
  /\ AtEnd
  /\ byTeamName' = flushPending.byTeamName
  /\ pendingPlayer' = flushPending.pendingPlayer
  /\ summarizePc' = "done"
  /\ UNCHANGED <<pipelineVars, nbaVars, libArgs, libOut, pdfText, tokens, tokenIndex,
                 currentTeamName>>

\* The report texts the parser is run on: up to MaxFragments fragments of a
\* report, separated by a blank or run together as the text extraction of a
\* PDF leaves them.
Fragments ==
  {"Boston Celtics", "Lakers", "76ers", "Tatum, Jayson", "Brown,",
   "Questionable", "Ankle Sprain", "-"}
Separators == {" ", ""}

RECURSIVE TextsOf(_, _)
TextsOf(sep, n) ==
  IF n = 0 THEN {""}
  ELSE LET shorter == TextsOf(sep, n - 1)
       IN  shorter \cup {IF t = "" THEN f ELSE t \o sep \o f :
                           t \in shorter, f \in Fragments}

Texts == UNION {TextsOf(sep, MaxFragments) : sep \in Separators}

ParseInit ==
  /\ PipelineInit
  /\ NbaIdle
  /\ libArgs = NoArgs
  /\ libOut = NotCalled
  /\ pdfText \in Texts
  /\ tokens = <<>>
  /\ tokenIndex = 0
  /\ currentTeamName = <<>>
  /\ pendingPlayer = <<>>
  /\ byTeamName = <<>>
  /\ summarizePc = "start"

ParseNext ==
  \/ Tokenize
  \/ TeamTailToken
  \/ PlayerToken
  \/ StatusToken
  \/ OtherToken
  \/ ReturnSummary

ParseSpec == ParseInit /\ [][ParseNext]_vars

(* ======================= properties of the parser ====================== *)

\* The number of player entries of team entry e whose status is st.
PlayersWith(e, st) ==
  Cardinality({k \in 1..Len(e.players) : e.players[k].status = st})

\* C13: at every point of the summarization and in its result, for every
\* team and every status s, counts[s] is at least the number of the team's
\* player entries whose status is s; so counts[entry.status] >= 1 for every
\* player entry.
C13_CountsCoverPlayers ==
  \A team \in DOMAIN byTeamName :
    /\ \A st \in InjuryStatus :
         byTeamName[team].counts[st] >= PlayersWith(byTeamName[team], st)
    /\ \A k \in 1..Len(byTeamName[team].players) :
         byTeamName[team].counts[byTeamName[team].players[k].status] >= 1

\* A team with one player entry of a status and a second count of that
\* status that no player entry stands for.
C13_Witness ==
  /\ summarizePc = "done"
  /\ \E team \in DOMAIN byTeamName, st \in InjuryStatus :
       /\ PlayersWith(byTeamName[team], st) = 1
       /\ byTeamName[team].counts[st] = 2

\* The tokens of the text as it is given, before any rewriting.
RawTokens == SplitOnWhiteSpace(pdfText, 1)

\* The places of the text where the token "76ers" stands with no token
\* before it that the backward scan would take up, and a player after it.
Lone76ers ==
  {k \in 1..(Len(RawTokens) - 1) :
     /\ RawTokens[k] = "76ers"
     /\ (k = 1 \/ StopsScan(RawTokens[k - 1]))
     /\ Includes(RawTokens[k + 1], ",")}

\* C14: a text that holds the token "76ers" with no resolvable city token
\* before it (here: followed by a player, so that the team gets an entry)
\* yields a team entry under the key "Philadelphia 76ers".
C14_Lone76ersKey ==
  (summarizePc = "done" /\ Lone76ers # {}) =>
    "Philadelphia 76ers" \in DOMAIN byTeamName

(* ================== the team-name resolver on its own ================== *)

\* The tokens buildTeamName is called on: tails, words the backward scan
\* takes up, and tokens at which it stops (a slash, a noise word, a comma).
ScanVocabulary ==
  {"Celtics", "76ers", "Blazers", "Boston", "Trail", "Philadelphia",
   "Injury/Illness", "Rest", "Tatum,"}

ScanInputs ==
  UNION {[1..n -> ScanVocabulary] : n \in 1..MaxScanTokens}

ResolverInit ==
  /\ PipelineInit
  /\ NbaIdle
  /\ ParseIdle
  /\ \E toks \in ScanInputs, tailIndex \in 1..MaxScanTokens :
       /\ tailIndex <= Len(toks)
       /\ toks[tailIndex] \in TEAM_TAILS
       /\ libArgs = [tokens |-> toks, tailIndex |-> tailIndex]
  /\ libOut = NotCalled

\* const name = buildTeamName(tokens, i)
CallBuildTeamName ==
  /\ ~libOut.called
  /\ libOut' = Called(buildTeamName(libArgs.tokens, libArgs.tailIndex))
  /\ UNCHANGED <<pipelineVars, nbaVars, libArgs, parseVars>>

ResolverNext == CallBuildTeamName

ResolverSpec == ResolverInit /\ [][ResolverNext]_vars

(* ==================== properties of the resolver ======================= *)

\* The tail the resolver is called on, and whether the token before it is
\* one the backward scan takes up.
TailToken == libArgs.tokens[libArgs.tailIndex]
HasResolvableBefore ==
  libArgs.tailIndex > 1 /\ ~StopsScan(libArgs.tokens[libArgs.tailIndex - 1])

EndsWith(s, suffix) == LiteralAt(s, Len(s) - Len(suffix) + 1, suffix)

\* C15, as the claim states it: a tail preceded by a resolvable token gives a
\* name ending in the tail, and the tail "76ers" gives "Philadelphia 76ers"
\* whatever the tokens before it.
C15_Always76ers ==
  libOut.called =>
    IF TailToken = "76ers" THEN libOut.value = <<"Philadelphia 76ers">>
    ELSE HasResolvableBefore =>
           (libOut.value # <<>> /\ EndsWith(libOut.value[1], TailToken))

\* C15, amended: a tail preceded by a resolvable token gives a name ending in
\* that token, a blank and the tail -- the tail "76ers" like any other; the
\* tail "76ers" with no resolvable token before it gives "Philadelphia 76ers".
C15_ResolvedName ==
  libOut.called =>
    /\ HasResolvableBefore =>
         /\ libOut.value # <<>>
         /\ EndsWith(libOut.value[1],
                     libArgs.tokens[libArgs.tailIndex - 1] \o " " \o TailToken)
    /\ (TailToken = "76ers" /\ ~HasResolvableBefore) =>
         libOut.value = <<"Philadelphia 76ers">>

\* "Trail Boston 76ers" is resolved from the tokens Trail, Boston, 76ers.
C15_Witness ==
  /\ libOut.called
  /\ TailToken = "76ers"
  /\ HasResolvableBefore
  /\ libOut.value = <<"Trail Boston 76ers">>

\* A token that is added to the reason of a pending player.
IsReasonToken(t) ==
  /\ t \notin TEAM_TAILS
  /\ ~Includes(t, ",")
  /\ ~isStatusToken(t)
  /\ t \notin NoiseTokens

\* The token stream is a two-word team name, a "Last," token, a first-name
\* token, a status word and reason tokens, and nothing else.
OnePlayerRecord ==
  /\ Len(tokens) >= 5
  /\ tokens[1] \notin TEAM_TAILS /\ ~StopsScan(tokens[1])
  /\ tokens[2] \in TEAM_TAILS
  /\ tokens[3] \notin TEAM_TAILS
  /\ Len(tokens[3]) >= 2 /\ EndsWith(tokens[3], ",")
  /\ ~Includes(SubSeq(tokens[3], 1, Len(tokens[3]) - 1), ",")
  /\ ~Includes(tokens[4], ",")
  /\ isStatusToken(tokens[5])
  /\ \A k \in 6..Len(tokens) : IsReasonToken(tokens[k])

\* C16: for a token stream made of a resolvable team name, a "Last," token, a
\* first-name token, a status word and reason tokens, the summary has under
\* that team name counts[status] = 1 and exactly one player entry, with the
\* name "Last, First", that status and the reason tokens joined by single
\* blanks; it has no other team.
C16_OnePlayerRecord ==
  (summarizePc = "done" /\ OnePlayerRecord) =>
    LET team == tokens[1] \o " " \o tokens[2]
    IN  /\ DOMAIN byTeamName = {team}
        /\ byTeamName[team].teamName = team
        /\ byTeamName[team].counts = [NoCounts EXCEPT ![tokens[5]] = 1]
        /\ byTeamName[team].players =
             <<[name |-> SubSeq(tokens[3], 1, Len(tokens[3]) - 1) \o ", "
                           \o tokens[4],
                status |-> tokens[5],
                reason |-> Join(SubSeq(tokens, 6, Len(tokens)), " ")]>>

\* "Boston CelticsTatum, JaysonQuestionableAnkle Sprain", as the extraction
\* of the PDF runs the cells together.
C16_Witness ==
  /\ summarizePc = "done"
  /\ OnePlayerRecord
  /\ tokens = <<"Boston", "Celtics", "Tatum,", "Jayson", "Questionable",
                "Ankle", "Sprain">>
  /\ pdfText # Join(tokens, " ")

\* The counts and the player entries of a team, present in the map or not.
CountsOf(byTeam, team) ==
  IF team \in DOMAIN byTeam THEN byTeam[team].counts ELSE NoCounts
PlayersOf(byTeam, team) ==
  IF team \in DOMAIN byTeam THEN byTeam[team].players ELSE <<>>

\* The step that handles a status token met with no player pending.
C17_Step ==
  (InLoop /\ isStatusToken(CurrentToken) /\ pendingPlayer = <<>>) =>
    /\ pendingPlayer' = <<>>
    /\ currentTeamName' = currentTeamName
    /\ IF currentTeamName # <<>>
       THEN LET team == currentTeamName[1]
            IN  /\ DOMAIN byTeamName' = DOMAIN byTeamName \cup {team}
                /\ CountsOf(byTeamName', team) =
                     [CountsOf(byTeamName, team) EXCEPT ![CurrentToken] = @ + 1]
                /\ PlayersOf(byTeamName', team) = PlayersOf(byTeamName, team)
                /\ \A other \in DOMAIN byTeamName \ {team} :
                     byTeamName'[other] = byTeamName[other]
       ELSE byTeamName' = byTeamName

\* C17: a status token met while a team is active and no player is pending
\* adds exactly one to that team's count of that status and adds no player
\* entry (nor changes anything else of the summary); met while no team is
\* active and no player is pending, it changes nothing.
C17_StatusWithoutPlayer == [][C17_Step]_vars

\* "Boston Celtics Questionable": the count is one and there is no player.
C17_Witness ==
  /\ summarizePc = "loop"
  /\ tokenIndex = 4
  /\ isStatusToken(tokens[3])
  /\ pendingPlayer = <<>>
  /\ currentTeamName = <<"Boston Celtics">>
  /\ "Boston Celtics" \in DOMAIN byTeamName
  /\ byTeamName["Boston Celtics"].counts.Questionable = 1
  /\ byTeamName["Boston Celtics"].players = <<>>

\* The steps of the parser that apply in the current state.
PossibleSteps ==
  {a \in {"Tokenize", "TeamTailToken", "PlayerToken", "StatusToken",
          "OtherToken", "ReturnSummary"} :
     CASE a = "Tokenize" -> summarizePc = "start"
       [] a = "TeamTailToken" -> AtTeamTail
       [] a = "PlayerToken" -> AtPlayer
       [] a = "StatusToken" -> AtStatus
       [] a = "OtherToken" -> AtOther
       [] a = "ReturnSummary" -> AtEnd}

\* Before the return exactly one step applies, after it none; the loop index
\* is never more than one past the end of the tokens; while no team name has
\* been resolved the map is empty.
C18_State ==
  /\ Cardinality(PossibleSteps) = IF summarizePc = "done" THEN 0 ELSE 1
  /\ summarizePc # "start" => tokenIndex \in 1..(Len(tokens) + 1)
  /\ currentTeamName = <<>> => DOMAIN byTeamName = {}

\* A step inside the loop moves the index forward or is the return, and the
\* text and its tokens are never changed.
C18_Step ==
  /\ summarizePc = "loop" =>
       \/ tokenIndex' > tokenIndex /\ summarizePc' = "loop" /\ tokens' = tokens
       \/ summarizePc' = "done" /\ tokenIndex' = tokenIndex /\ tokens' = tokens
  /\ summarizePc = "done" => UNCHANGED parseVars
  /\ pdfText' = pdfText

\* C18: the summarization is total and deterministic: in every state before
\* the return exactly one step applies and it can be taken, each step of the
\* loop moves the index forward over a fixed, finite sequence of tokens, so
\* every run ends with the return; and when no team name is resolved the
\* map that is returned is empty.
C18_Total == []C18_State /\ [][C18_Step]_vars

\* "Tatum, Jayson Questionable Ankle Sprain": a player, no team.
C18_Witness ==
  /\ summarizePc = "done"
  /\ currentTeamName = <<>>
  /\ Len(tokens) = 5
  /\ isStatusToken(tokens[3])
  /\ DOMAIN byTeamName = {}

(* ======================= the normalizer on its own ===================== *)

\* The texts normalizeForParsing is called on: up to MaxAtoms pieces run
\* together, the pieces being what its rules look for: upper-case letters
\* (one, and a run of two), a lower-case letter, a digit, a comma, a closing
\* parenthesis, a blank, the at-sign, a status word and the G League marker.
Atoms == {"A", "AB", "b", "7", ",", ")", " ", "@", "Out", "GLeague"}

RECURSIVE AtomStrings(_)
AtomStrings(n) ==
  IF n = 0 THEN {""}
  ELSE LET shorter == AtomStrings(n - 1)
       IN  shorter \cup {t \o a : t \in shorter, a \in Atoms}

NormInit ==
  /\ PipelineInit
  /\ NbaIdle
  /\ ParseIdle
  /\ libArgs \in [text : AtomStrings(MaxAtoms)]
  /\ libOut = NotCalled

\* const normalized = normalizeForParsing(...)
CallNormalizeForParsing ==
  /\ ~libOut.called
  /\ libOut' = Called(normalizeForParsing(libArgs.text))
  /\ UNCHANGED <<pipelineVars, nbaVars, libArgs, parseVars>>

NormNext == CallNormalizeForParsing

NormSpec == NormInit /\ [][NormNext]_vars

(* ==================== properties of the normalizer ===================== *)

\* C19: normalizeForParsing is idempotent: the normalization of a normalized
\* text is that text (so that its tokens, and the summary made from them,
\* are the same after one and after two normalizations).
C19_Idempotent ==
  libOut.called =>
    /\ normalizeForParsing(libOut.value) = libOut.value
    /\ SplitOnWhiteSpace(normalizeForParsing(libOut.value), 1)
         = SplitOnWhiteSpace(libOut.value, 1)

\* The G League marker, a digit before a letter and a status word, run
\* together, are set apart.
C19_Witness ==
  /\ libOut.called
  /\ libArgs.text = "GLeague7bOut"
  /\ libOut.value = "G League7 b Out"

(* ================== the states of the tokenizer ======================== *)

\* C20, as the claim states it: at every step the tokenizer is in one of three
\* states: no team, a team, or a team with a pending player; a pending player
\* is never held while no team is active.
C20_ThreeStates ==
  /\ Len(currentTeamName) <= 1
  /\ Len(pendingPlayer) <= 1
  /\ pendingPlayer # <<>> => currentTeamName # <<>>

\* The two locals are null or hold one value, and nothing is recorded while
\* no team is active.
C20_State ==
  /\ Len(currentTeamName) <= 1
  /\ Len(pendingPlayer) <= 1
  /\ currentTeamName = <<>> => DOMAIN byTeamName = {}

\* A team once active stays active; only a comma token opens a pending
\* player; a pending player held while no team is active is kept (flushing
\* it does nothing) until a comma token replaces it.
C20_Step ==
  /\ currentTeamName # <<>> => currentTeamName' # <<>>
  /\ (pendingPlayer = <<>> /\ pendingPlayer' # <<>>) => AtPlayer
  /\ (currentTeamName = <<>> /\ pendingPlayer # <<>>) =>
       /\ pendingPlayer' # <<>>
       /\ pendingPlayer'[1].name # pendingPlayer[1].name => AtPlayer

\* C20, amended: at every step the tokenizer is in one of four states: no
\* team, no team with a pending player, a team, or a team with a pending
\* player; a comma token opens a pending player whether or not a team is
\* active, and a pending player held while no team is active is kept and not
\* recorded as long as no team is active.
C20_FourStates == []C20_State /\ [][C20_Step]_vars

\* "Tatum, Jayson Ankle Sprain": a pending player that has gathered two
\* tokens while no team is active.
C20_Witness ==
  /\ summarizePc = "loop"
  /\ currentTeamName = <<>>
  /\ pendingPlayer # <<>>
  /\ Len(pendingPlayer[1].reasonTokens) = 2

(* ========================= the team-tail token ========================= *)

\* The entry flushPending records for the pending player p.
Recorded(p) == [name |-> p.name, status |-> p.status, reason |-> ReasonOf(p)]

\* A step at a team-tail token: a player pending under an active team goes
\* to the end of that team's players and to no other team; a tail that does
\* not resolve leaves the team context as it was.
C21_Step ==
  AtTeamTail =>
    /\ (pendingPlayer # <<>> /\ currentTeamName # <<>>) =>
         LET team == currentTeamName[1]
             before == TeamEntry(byTeamName, team)
         IN  /\ DOMAIN byTeamName' = DOMAIN byTeamName \cup {team}
             /\ byTeamName'[team].players =
                  Append(before.players, Recorded(pendingPlayer[1]))
             /\ \A n \in DOMAIN byTeamName' \ {team} :
                  byTeamName'[n] = byTeamName[n]
             /\ pendingPlayer' = <<>>
    /\ buildTeamName(tokens, tokenIndex) = <<>> =>
         currentTeamName' = currentTeamName

\* C21: when a team-tail token is reached with a player pending and a team
\* active, the player is committed to the team that was active before the
\* token and not to the team the token resolves to; when the tail does not
\* resolve, the team context is left unchanged.
C21_CommitToPreviousTeam == [][C21_Step]_vars

\* "Boston Celtics Tatum, Jayson Lakers": at "Lakers", which resolves to
\* "Jayson Lakers", Tatum has gone to the Boston Celtics, and the new team
\* has no entry.
C21_Witness ==
  /\ summarizePc = "loop"
  /\ tokenIndex = 6
  /\ tokens[5] = "Lakers"
  /\ currentTeamName = <<"Jayson Lakers">>
  /\ pendingPlayer = <<>>
  /\ DOMAIN byTeamName = {"Boston Celtics"}
  /\ byTeamName["Boston Celtics"].players =
       <<[name |-> "Tatum, Jayson", status |-> "Out", reason |-> ""]>>

(* ============================ the comma token ========================== *)

\* The token after the current one exists and holds no comma.
HasFirstName ==
  tokenIndex + 1 <= Len(tokens) /\ ~Includes(tokens[tokenIndex + 1], ",")

\* A step at a comma token: the pending player is flushed (recorded under
\* the active team, if there is one), and a new player is pending with the
\* default status and no reason token; with a first name the name is
\* "Last, First" and the loop goes on two tokens further, with the team
\* context, the counts and the new player's status and reason untouched by
\* the first name; without one the name is the surname.
C22_Step ==
  AtPlayer =>
    LET surname == IF SubSeq(CurrentToken, Len(CurrentToken), Len(CurrentToken)) = ","
                   THEN SubSeq(CurrentToken, 1, Len(CurrentToken) - 1)
                   ELSE CurrentToken
    IN  /\ IF pendingPlayer # <<>> /\ currentTeamName # <<>>
           THEN byTeamName' =
                  bump(byTeamName, currentTeamName[1], pendingPlayer[1].status,
                       <<Recorded(pendingPlayer[1])>>)
           ELSE byTeamName' = byTeamName
        /\ Len(pendingPlayer') = 1
        /\ pendingPlayer'[1].reasonTokens = <<>>
        /\ pendingPlayer'[1].status = "Out"
        /\ currentTeamName' = currentTeamName
        /\ IF HasFirstName
           THEN /\ pendingPlayer'[1].name =
                     surname \o ", " \o tokens[tokenIndex + 1]
                /\ tokenIndex' = tokenIndex + 2
           ELSE /\ pendingPlayer'[1].name = surname
                /\ tokenIndex' = tokenIndex + 1

\* The token after a comma token is the token of an iteration only when it
\* holds a comma itself: a first name is never looked at by the loop.
C22_FirstNameSkipped ==
  (InLoop /\ tokenIndex >= 2 /\ Includes(tokens[tokenIndex - 1], ",")) =>
    Includes(CurrentToken, ",")

\* C22: a token containing a comma flushes the pending player and opens a
\* new one with an empty reason; a next token without a comma is consumed as
\* the first name (name "Last, First") and is not taken as a team tail, as a
\* status word or as reason text; otherwise the name is the surname alone.
C22_CommaToken == []C22_FirstNameSkipped /\ [][C22_Step]_vars

\* "Boston Celtics Tatum, Jayson Brown, Lakers": at "Brown," Tatum has been
\* recorded and "Lakers", a team tail, has become Brown's first name.
C22_Witness ==
  /\ summarizePc = "loop"
  /\ tokenIndex = 7
  /\ Len(tokens) = 6
  /\ tokens[6] \in TEAM_TAILS
  /\ currentTeamName = <<"Boston Celtics">>
  /\ pendingPlayer =
       <<[name |-> "Brown, Lakers", status |-> "Out", reasonTokens |-> <<>>]>>
  /\ Len(byTeamName["Boston Celtics"].players) = 1

(* ====================== status and reason of a player ================== *)

\* The pending player is about to be recorded: flushPending is called with a
\* player pending and a team active.
Recording ==
  /\ pendingPlayer # <<>>
  /\ currentTeamName # <<>>
  /\ (AtTeamTail \/ AtPlayer \/ AtEnd)

\* The comma token that opened the pending player: the last one before the
\* current token.
OpenedAt ==
  CHOOSE k \in 1..(tokenIndex - 1) :
    /\ Includes(tokens[k], ",")
    /\ \A j \in (k + 1)..(tokenIndex - 1) : ~Includes(tokens[j], ",")

\* The first token met while the player was pending: the one after its name.
FirstPendingAt ==
  IF OpenedAt + 1 <= Len(tokens) /\ ~Includes(tokens[OpenedAt + 1], ",")
  THEN OpenedAt + 2 ELSE OpenedAt + 1

\* The last status token met while the player was pending, 0 if none.
LastStatusAt ==
  LET seen == {k \in FirstPendingAt..(tokenIndex - 1) : isStatusToken(tokens[k])}
  IN  IF seen = {} THEN 0 ELSE CHOOSE k \in seen : \A j \in seen : j <= k

\* The tokens met after the last status token and before the current one,
\* without those of the set left, joined by single spaces.
TextAfterStatus(left) ==
  Join(SelectSeq(SubSeq(tokens, LastStatusAt + 1, tokenIndex - 1),
                 LAMBDA t : t \notin left), " ")

\* The entry the step has put at the end of the active team's players.
JustRecorded ==
  LET players == byTeamName'[currentTeamName[1]].players
  IN  players[Len(players)]

\* A recording step of a player that has seen a status token gives the entry
\* the last such token as status and, as reason, the tokens met since then
\* that are not in the set left.
ReasonIsTextAfterStatus(left) ==
  (Recording /\ LastStatusAt # 0) =>
    /\ JustRecorded.status = tokens[LastStatusAt]
    /\ JustRecorded.reason = TextAfterStatus(left)

\* C23, as the claim states it: the status of a recorded player is the last
\* status token seen while it was pending, and its reason is exactly the
\* non-noise tokens met after that status token and before the flush, joined
\* by single spaces.
C23_ReasonAllButNoise == [][ReasonIsTextAfterStatus(NoiseTokens)]_vars

\* C23, amended: the status of a recorded player that saw a status token is
\* the last status token seen while it was pending, and its reason is
\* exactly the tokens met after that status token and before the flush that
\* are neither noise tokens nor team tails, joined by single spaces; tokens
\* collected before a status token and the noise tokens never appear in it.
C23_ReasonAfterLastStatus ==
  [][ReasonIsTextAfterStatus(NoiseTokens \cup TEAM_TAILS)]_vars

\* "Tatum, Jayson Ankle Sprain Questionable Boston Celtics": "Ankle Sprain"
\* was dropped at "Questionable", "Boston" came after it, and the tail, met
\* with no team active, did not end the player.
C23_Witness ==
  /\ summarizePc = "done"
  /\ tokens = <<"Tatum,", "Jayson", "Ankle", "Sprain", "Questionable",
                "Boston", "Celtics">>
  /\ \E n \in DOMAIN byTeamName :
       byTeamName[n].players =
         <<[name |-> "Tatum, Jayson", status |-> "Questionable",
            reason |-> "Boston"]>>

(* ===================== the extent of the backward scan ================= *)

\* The last token before the tail that meets a stop condition, 0 if none.
StoppedAt ==
  LET stops == {j \in 1..(libArgs.tailIndex - 1) : StopsScan(libArgs.tokens[j])}
  IN  IF stops = {} THEN 0 ELSE CHOOSE j \in stops : \A k \in stops : k <= j

\* The first token of the name: after the stopping token, and at most three
\* tokens before the tail.
NameFrom ==
  LET far == IF libArgs.tailIndex - 3 < 1 THEN 1 ELSE libArgs.tailIndex - 3
  IN  IF StoppedAt + 1 > far THEN StoppedAt + 1 ELSE far

\* C24: the resolver takes up at most 3 tokens before the tail and none at
\* or before the first token (going backward) that meets a stop condition;
\* it returns the tokens taken up followed by the tail, joined by blanks,
\* when these are 2 to 4 words; a tail alone is rejected unless it is
\* "76ers", which gives "Philadelphia 76ers".
C24_ScanExtent ==
  libOut.called =>
    LET words == SubSeq(libArgs.tokens, NameFrom, libArgs.tailIndex)
    IN  /\ Len(words) <= 4
        /\ IF Len(words) >= 2 THEN libOut.value = <<Join(words, " ")>>
           ELSE IF libArgs.tokens[libArgs.tailIndex] = "76ers"
                THEN libOut.value = <<"Philadelphia 76ers">>
                ELSE libOut.value = <<>>

\* "Philadelphia Boston Trail Boston Blazers": four tokens before the tail,
\* none of them stops the scan, and the name has the last three of them.
C24_Witness ==
  /\ libOut.called
  /\ libArgs.tokens = <<"Philadelphia", "Boston", "Trail", "Boston", "Blazers">>
  /\ libArgs.tailIndex = 5
  /\ libOut.value = <<"Boston Trail Boston Blazers">>

(* ==================== when and where players are recorded ============== *)
(* The course of the loop read off the token stream alone.                 *)

IsComma(k) == Includes(tokens[k], ",")

\* Token k is a first name: it follows a comma token and holds no comma.
IsFirstName(k) == k >= 2 /\ IsComma(k - 1) /\ ~IsComma(k)

\* Token k is met as a team tail.
TailAt(k) == tokens[k] \in TEAM_TAILS /\ ~IsFirstName(k)

\* The places where flushPending is called: the tails, the comma tokens and
\* the end of the stream (Len(tokens) + 1).
FlushPlace(e) == e = Len(tokens) + 1 \/ IsComma(e) \/ TailAt(e)

\* The place has been passed by the loop.
Passed(e) ==
  IF e = Len(tokens) + 1 THEN summarizePc = "done" ELSE e < tokenIndex

\* The team active when place e is reached: the one of the last tail before
\* it that resolved, null if there is none.
TeamBefore(e) ==
  LET resolved == {j \in 1..(e - 1) :
                     TailAt(j) /\ buildTeamName(tokens, j) # <<>>}
  IN  IF resolved = {} THEN <<>>
      ELSE buildTeamName(tokens, CHOOSE j \in resolved : \A i \in resolved : i <= j)

\* The place where the player opened at comma token k is recorded: the first
\* flush place after k, up to the next comma token, that is reached with a
\* team active; 0 if there is none.
RecordedAt(k) ==
  LET places == {e \in (k + 1)..(Len(tokens) + 1) :
                   /\ FlushPlace(e)
                   /\ TeamBefore(e) # <<>>
                   /\ \A j \in (k + 1)..(e - 1) : ~IsComma(j)}
  IN  IF places = {} THEN 0 ELSE CHOOSE e \in places : \A d \in places : e <= d

\* The first flush place after comma token k.
NextFlushPlace(k) ==
  CHOOSE e \in (k + 1)..(Len(tokens) + 1) :
    FlushPlace(e) /\ \A d \in (k + 1)..(e - 1) : ~FlushPlace(d)

\* The name of the player opened at comma token k.
NameAt(k) ==
  LET t == tokens[k]
      surname == IF SubSeq(t, Len(t), Len(t)) = ","
                 THEN SubSeq(t, 1, Len(t) - 1) ELSE t
  IN  IF k + 1 <= Len(tokens) /\ ~IsComma(k + 1)
      THEN surname \o ", " \o tokens[k + 1] ELSE surname

\* The comma tokens whose players have been recorded under team n by now, in
\* the order of the stream.
RecordedUnder(n) ==
  SelectSeq([k \in 1..Len(tokens) |-> k],
            LAMBDA k : /\ IsComma(k)
                       /\ RecordedAt(k) # 0
                       /\ Passed(RecordedAt(k))
                       /\ TeamBefore(RecordedAt(k)) = <<n>>)

\* In the summary returned, every player opened while a team was active has
\* been recorded at the first flush place after it, and every team's
\* players are the players recorded under it, once each, in the order in
\* which they were opened in the token stream.
C25_Returned ==
  summarizePc = "done" =>
    /\ \A k \in 1..Len(tokens) :
         (IsComma(k) /\ TeamBefore(k) # <<>>) =>
           /\ RecordedAt(k) = NextFlushPlace(k)
           /\ TeamBefore(k)[1] \in DOMAIN byTeamName
    /\ \A n \in DOMAIN byTeamName :
         LET opened == RecordedUnder(n)
         IN  /\ Len(byTeamName[n].players) = Len(opened)
             /\ \A i \in 1..Len(opened) :
                  byTeamName[n].players[i].name = NameAt(opened[i])

\* The number of players recorded, all teams together.
TotalPlayers(byTeam) ==
  LET RECURSIVE Sum(_)
      Sum(S) == IF S = {} THEN 0
                ELSE LET n == CHOOSE x \in S : TRUE
                     IN  Len(byTeam[n].players) + Sum(S \ {n})
  IN  Sum(DOMAIN byTeam)

\* A player pending under an active team is recorded by the step at a team
\* tail, at a comma token or at the end of the stream, once and at the end of
\* its team's list, and is no longer pending after it; a step at any other
\* token keeps it pending and records nothing.
C25_Step ==
  (pendingPlayer # <<>> /\ currentTeamName # <<>>) =>
    IF AtTeamTail \/ AtPlayer \/ AtEnd
    THEN /\ TotalPlayers(byTeamName') = TotalPlayers(byTeamName) + 1
         /\ JustRecorded.name = pendingPlayer[1].name
         /\ AtPlayer \/ pendingPlayer' = <<>>
    ELSE /\ TotalPlayers(byTeamName') = TotalPlayers(byTeamName)
         /\ pendingPlayer' # <<>>
         /\ pendingPlayer'[1].name = pendingPlayer[1].name

\* C25: every player opened while a team is active is recorded exactly
\* once, at the next team-tail token, the next comma token or the end of the
\* stream, and each team's players list holds its players in the order in
\* which they were opened in the token stream.
C25_RecordedOnceInOrder == []C25_Returned /\ [][C25_Step]_vars

\* "Boston Celtics Tatum, Jayson Brown,": Tatum was recorded at the next
\* comma token and Brown at the end of the stream, in this order.
C25_Witness ==
  /\ summarizePc = "done"
  /\ tokens = <<"Boston", "Celtics", "Tatum,", "Jayson", "Brown,">>
  /\ DOMAIN byTeamName = {"Boston Celtics"}
  /\ Len(byTeamName["Boston Celtics"].players) = 2
  /\ byTeamName["Boston Celtics"].players[1].name = "Tatum, Jayson"
  /\ byTeamName["Boston Celtics"].players[2].name = "Brown"

(* ========================== the default status ========================= *)

\* A recording step of a player that has seen no status token: the entry
\* has the status Out, and the team's Out count, and no other count of any
\* team, goes up by one.
C26_Step ==
  (Recording /\ LastStatusAt = 0) =>
    LET team == currentTeamName[1]
        before == TeamEntry(byTeamName, team)
    IN  /\ JustRecorded.status = "Out"
        /\ byTeamName'[team].counts.Out = before.counts.Out + 1
        /\ \A st \in InjuryStatus \ {"Out"} :
             byTeamName'[team].counts[st] = before.counts[st]
        /\ \A n \in DOMAIN byTeamName \ {team} :
             byTeamName'[n].counts = byTeamName[n].counts

\* C26: a player that is flushed without any status token having been seen
\* while it was pending is recorded with the default status Out, and the
\* team's Out count is incremented for it.
C26_DefaultOut == [][C26_Step]_vars

\* "Boston Celtics Tatum, Jayson Ankle Sprain": no status token in the
\* stream, Tatum is recorded as Out with his reason and counted once.
C26_Witness ==
  /\ summarizePc = "done"
  /\ tokens = <<"Boston", "Celtics", "Tatum,", "Jayson", "Ankle", "Sprain">>
  /\ byTeamName["Boston Celtics"].players =
       <<[name |-> "Tatum, Jayson", status |-> "Out", reason |-> "Ankle Sprain"]>>
  /\ byTeamName["Boston Celtics"].counts =
       [Out |-> 1, Doubtful |-> 0, Questionable |-> 0, Probable |-> 0]

(* ========================= the NBA stats client ======================== *)
(* nbaJson of the matchup route.  Time is counted in units of 350 ms, the  *)
(* base of the back-off sleep.                                             *)

\* [403, 429, 500, 502, 503]
TransientStatuses == {403, 429, 500, 502, 503}

\* The statuses a response is drawn from; res.ok holds for 200.
NbaStatuses == {200, 404} \cup TransientStatuses

NbaTtls == {1, 4}
NbaRetries == 0..MaxRetries

\* What await fetch(url, ...) gives: a response with a status and a body
\* that res.json() can or cannot read, or a rejection.
FetchOutcomes ==
  {[kind |-> "response", status |-> 200, body |-> b] : b \in {"json", "other"}}
    \cup {[kind |-> "response", status |-> st, body |-> "other"] :
            st \in NbaStatuses \ {200}}
    \cup {[kind |-> "rejected", status |-> 0, body |-> "none"]}

\* new Error(`NBA fetch failed ${res.status}: ...`), and the errors thrown
\* by fetch and by res.json().
NbaErrorOf(res) ==
  IF res.kind = "rejected" THEN [kind |-> "network", status |-> 0]
  ELSE IF res.status = 200 THEN [kind |-> "json", status |-> 200]
  ELSE [kind |-> "status", status |-> res.status]

\* The frame after catch (e) { ... }: sleep and go on while attempts remain,
\* rethrow otherwise.
Catch(frame, e) ==
  IF frame.attempt < frame.retries
  THEN [frame EXCEPT !.lastErr = <<e>>, !.pc = "sleep"]
  ELSE [frame EXCEPT !.lastErr = <<e>>, !.pc = "thrown",
                     !.result = [kind |-> "throw", value |-> <<e>>]]

\* The frame after the response res has been looked at inside the try block.
AfterResponse(frame, res) ==
  IF res.kind = "rejected" THEN Catch(frame, NbaErrorOf(res))
  ELSE IF res.status # 200
       THEN IF res.status \in TransientStatuses /\ frame.attempt < frame.retries
            THEN [frame EXCEPT !.pc = "sleep"]
            ELSE Catch(frame, NbaErrorOf(res))
       ELSE IF res.body # "json" THEN Catch(frame, NbaErrorOf(res))
            ELSE [frame EXCEPT !.pc = "returned",
                    !.result = [kind |-> "return",
                                value |-> <<[key |-> frame.cacheKey,
                                             fetchedAt |-> nbaClock]>>]]

\* nbaJson(url, { cacheKey, ttlMs, retries }) up to its first await, or to
\* its return on a cache hit.
CallNbaJson(key, ttlMs, retries) ==
  /\ nbaCall.pc \in {"idle", "returned", "thrown"}
  /\ nbaStarted < MaxNbaCalls
  /\ nbaStarted' = nbaStarted + 1
  /\ LET hit == fetchCache[key]
         frame == [IdleNbaCall EXCEPT !.cacheKey = key, !.ttlMs = ttlMs,
                                      !.retries = retries, !.now = nbaClock]
     IN  nbaCall' =
           IF hit # <<>> /\ hit[1].exp > nbaClock
           THEN [frame EXCEPT !.pc = "returned",
                              !.result = [kind |-> "return", value |-> hit[1].value]]
           ELSE [frame EXCEPT !.pc = "fetch"]
  /\ UNCHANGED <<pipelineVars, libVars, nbaClock, fetchCache>>

\* await fetch(...) settles and the body of the try block runs to a return,
\* a sleep or a throw.
NbaFetchSettles(res) ==
  /\ nbaCall.pc = "fetch"
  /\ LET frame == [nbaCall EXCEPT !.fetches = @ + 1, !.res = <<res>>]
         after == AfterResponse(frame, res)
     IN  /\ nbaCall' = after
         /\ fetchCache' =
              IF after.pc = "returned"
              THEN [fetchCache EXCEPT ![frame.cacheKey] =
                      <<[exp |-> frame.now + frame.ttlMs,
                         value |-> after.result.value]>>]
              ELSE fetchCache
  /\ UNCHANGED <<pipelineVars, libVars, nbaClock, nbaStarted>>

\* await sleep(350 * (attempt + 1)) ends; continue, attempt++.
NbaSleepEnds ==
  /\ nbaCall.pc = "sleep"
  /\ nbaClock' = nbaClock + nbaCall.attempt + 1
  /\ nbaCall' = [nbaCall EXCEPT !.attempt = @ + 1, !.pc = "fetch"]
  /\ UNCHANGED <<pipelineVars, libVars, fetchCache, nbaStarted>>

\* Time passes between two calls.
NbaTick ==
  /\ nbaCall.pc \in {"idle", "returned", "thrown"}
  /\ nbaClock < MaxNbaClock
  /\ nbaClock' = nbaClock + 1
  /\ UNCHANGED <<pipelineVars, libVars, fetchCache, nbaCall, nbaStarted>>

NbaInit ==
  /\ PipelineInit
  /\ NbaIdle
  /\ libArgs = NoArgs
  /\ libOut = NotCalled
  /\ ParseIdle

NbaNext ==
  \/ \E key \in NbaKeys, ttlMs \in NbaTtls, retries \in NbaRetries :
       CallNbaJson(key, ttlMs, retries)
  \/ \E res \in FetchOutcomes : NbaFetchSettles(res)
  \/ NbaSleepEnds
  \/ NbaTick

NbaSpec == NbaInit /\ [][NbaNext]_vars

(* ==================== properties of the NBA stats client =============== *)

\* No call has made more than retries + 1 fetch attempts.
C27_State == nbaCall.fetches <= nbaCall.retries + 1

\* A step in which a fetch brings a non-OK response: the call sleeps to try
\* again when the status is transient and attempts remain, and fails
\* at once otherwise.
C27_Step ==
  (nbaCall.pc = "fetch" /\ nbaCall'.res # <<>>
     /\ nbaCall'.res[1].kind = "response" /\ nbaCall'.res[1].status # 200) =>
    IF nbaCall'.res[1].status \in TransientStatuses
         /\ nbaCall.attempt < nbaCall.retries
    THEN nbaCall'.pc = "sleep"
    ELSE nbaCall'.pc = "thrown"

\* C27: nbaJson retries a non-OK response only when its status is one of
\* 403, 429, 500, 502, 503 and attempts remain; any other non-OK status
\* makes the call fail without a further fetch attempt; no call makes more
\* than retries + 1 fetch attempts.
C27_RetryOnlyTransient == []C27_State /\ [][C27_Step]_vars

(* ===================== the stale flag of getOrRefresh ================== *)

\* A call that returns a value: it is marked stale exactly when the call met
\* no fresh value, a refresh outstanding and a filled slot; a value not
\* marked stale is either the slot's value, fresh for the call's maxAgeMs at
\* the time of the call, returned at once, or comes to a call that was
\* suspended on a refresh.
C28_State ==
  (last.op = "getOrRefresh" /\ last.ret.kind = "value") =>
    /\ last.ret.stale <=> SawStale(last.frame)
    /\ ~last.ret.stale =>
         IF last.frame.sawFresh
         THEN /\ last.args # <<>>
              /\ last.frame.awaited = 0
              /\ last.ret.value = last.frame.slotAtCall
              /\ FreshAt(last.ret.value, last.args[2], last.args[1])
         ELSE /\ last.args = <<>>
              /\ last.frame.awaited # 0

\* A call is never suspended on a refresh that has already ended with a
\* value, and the value a suspended call resumes with is the result of the
\* refresh it awaited, which has ended with it by then.
C28_Step ==
  \A c \in Callers :
    /\ (callers[c].pc = "idle" /\ callers'[c].pc # "idle") =>
         pipes'[callers'[c].awaited].status \notin {"resolved", "collected"}
    /\ (callers[c].pc # "idle" /\ callers'[c].pc = "idle"
          /\ last'.ret.kind = "value") =>
         /\ pipes[callers[c].awaited].status = "resolved"
         /\ last'.ret.value = pipes[callers[c].awaited].result
         /\ last'.frame = callers[c]

\* C28: getOrRefresh returns stale = TRUE exactly when the call found no
\* fresh value, an outstanding refresh and a non-empty slot; every value
\* returned with stale = FALSE is either fresh for the caller's maxAge at the
\* time of the call or the result of a refresh that ended after the call
\* began.
C28_StaleExactly == []C28_State /\ [][C28_Step]_vars

\* The caller that replaced an expired value resumes: it met a filled slot
\* and no refresh, and receives the new value, not marked stale.
C28_Witness ==
  /\ last.op = "getOrRefresh"
  /\ last.ret.kind = "value"
  /\ ~last.ret.stale
  /\ ~last.frame.sawFresh
  /\ last.frame.slotAtCall # <<>>
  /\ last.frame.startedRefresh # 0
  /\ last.ret.value # last.frame.slotAtCall
  /\ cache = last.ret.value

(* ================= the order of the store and the clearing ============= *)

\* While a refresh has its value but has not stored it, it holds the marker;
\* once it has ended with a value the slot holds that value, whether the
\* marker is still set or already clear.
C29_State ==
  \A r \in RefreshIds :
    /\ pipes[r].status = "fetched" => inFlight = r
    /\ pipes[r].status = "resolved" => cache = pipes[r].result

\* The step that clears the marker of a successful refresh finds its result
\* in the slot and leaves it there; a step that starts a refresh is the step
\* of a call that met no fresh value and no marker.
C29_Step ==
  /\ \A r \in RefreshIds :
       (inFlight = r /\ inFlight' = NoRefresh /\ pipes[r].status = "resolved") =>
         /\ cache = pipes[r].result
         /\ cache' = cache
  /\ started' # started =>
       \A c \in Callers :
         callers'[c].startedRefresh = started' =>
           /\ ~callers'[c].sawFresh
           /\ callers'[c].slotAtCall = cache
           /\ callers'[c].markerAtCall = NoRefresh

\* C29: on a successful refresh the new value is stored in the slot before
\* the marker is cleared: in no reachable state is the marker clear after a
\* successful refresh while the slot does not hold that refresh's result,
\* and a call arriving right after the refresh starts no refresh while the
\* value is fresh.
C29_StoreBeforeClear == []C29_State /\ [][C29_Step]_vars

\* The first refresh has just been cleared by its caller, the slot holds its
\* result, and a second caller suspended on it has not resumed yet.
C29_Witness ==
  /\ last.op = "getOrRefresh"
  /\ last.frame.startedRefresh # 0
  /\ last.frame.slotAtCall = <<>>
  /\ last.ret.kind = "value"
  /\ inFlight = NoRefresh
  /\ cache = last.ret.value
  /\ \E d \in Callers :
       /\ callers[d].pc = "awaitInFlight"
       /\ callers[d].awaited = last.frame.startedRefresh

(* ========================= what the counts count ======================= *)

\* A player is pending when token k is reached: a comma token lies before
\* k, and no team tail reached with a team active has flushed its player.
PendingAt(k) ==
  \E c \in 1..(k - 1) :
    /\ IsComma(c)
    /\ \A j \in (c + 1)..(k - 1) :
         ~IsComma(j) /\ ~(TailAt(j) /\ TeamBefore(j) # <<>>)

\* Token k is a status token counted without a player: met by the loop with
\* no player pending and a team active.
FallbackAt(k) ==
  /\ isStatusToken(tokens[k])
  /\ ~IsFirstName(k)
  /\ ~PendingAt(k)
  /\ TeamBefore(k) # <<>>

\* The fallback status tokens st counted for team n.
Fallbacks(n, st) ==
  {k \in 1..Len(tokens) :
     FallbackAt(k) /\ tokens[k] = st /\ TeamBefore(k) = <<n>>}

\* In the summary returned every count is the number of the team's player
\* entries with the status plus the number of status tokens counted without
\* a player, and every team has a count.
C30_Returned ==
  summarizePc = "done" =>
    \A n \in DOMAIN byTeamName :
      /\ byTeamName[n].teamName = n
      /\ \A st \in InjuryStatus :
           byTeamName[n].counts[st] =
             PlayersWith(byTeamName[n], st) + Cardinality(Fallbacks(n, st))
      /\ \E st \in InjuryStatus : byTeamName[n].counts[st] >= 1

\* A status token met with a player pending changes no count; the step that
\* records a player raises the count of the player's status in its team by
\* one and changes no other count.
C30_Step ==
  /\ (AtStatus /\ pendingPlayer # <<>>) => byTeamName' = byTeamName
  /\ Recording =>
       LET team == currentTeamName[1]
           before == TeamEntry(byTeamName, team)
       IN  /\ \A st \in InjuryStatus :
                byTeamName'[team].counts[st] =
                  before.counts[st] + IF st = JustRecorded.status THEN 1 ELSE 0
           /\ \A n \in DOMAIN byTeamName \ {team} :
                byTeamName'[n].counts = byTeamName[n].counts

\* C30: in the summary, for every team and every status s, counts[s] equals
\* the number of the team's player entries with status s plus the number of
\* fallback status tokens s counted for the team: each recorded player
\* contributes exactly one increment, at flush, however many status tokens
\* it saw; every team key of byTeamName has a total count of at least 1.
C30_CountsExact == []C30_Returned /\ [][C30_Step]_vars

\* "Boston Celtics Questionable Tatum, Jayson Questionable": one status
\* token counted without a player, then a player with the same status.
C30_Witness ==
  /\ summarizePc = "done"
  /\ tokens = <<"Boston", "Celtics", "Questionable", "Tatum,", "Jayson",
                "Questionable">>
  /\ byTeamName["Boston Celtics"].counts.Questionable = 2
  /\ Len(byTeamName["Boston Celtics"].players) = 1
  /\ Fallbacks("Boston Celtics", "Questionable") = {3}

====
